---- MODULE Spec2Model ----
(***************************************************************************)
(* A model of the backtesting engine of the quant toolkit                  *)
(* (quant/backtesting/engine.py, quant/backtesting/metrics.py) and of the  *)
(* strategies it drives (quant/strategies/*.py).                           *)
(*                                                                         *)
(* Spec models BacktestEngine: construction, then any number of run()      *)
(* calls, one action per loop iteration.  The strategy is seen through the *)
(* Strategy interface: generate_signals validates the columns of the       *)
(* table and attaches one signal per bar, calculate_position_size returns  *)
(* a quantity.  The rows of the table are drawn when the loop reads them   *)
(* (the engine never looks ahead of the bar it is on).                     *)
(*                                                                         *)
(* Arithmetic is exact.  Prices are whole multiples of CommScale and the   *)
(* commission rate is commission / CommScale, so every cost, commission    *)
(* and pnl is a whole number; ratios are kept as reduced fractions.        *)
(* Floating-point rounding of the Python code is not modelled.             *)
(*                                                                         *)
(* SpecDb is Spec with a Database attached to the engine.  SpecRerun calls *)
(* run() twice on one engine over the same table, the caller keeping the   *)
(* first result.  SpecPortfolio models the calls of a Portfolio            *)
(* (quant/portfolio/portfolio.py); SpecRebalance sets a portfolio up by    *)
(* purchases and calls its Rebalancer (quant/portfolio/rebalancer.py)      *)
(* once; SpecThreshold does the same for periodic_rebalance and            *)
(* threshold_rebalance.  Every number of a portfolio is an exact fraction. *)
(* SpecVar models VaRCalculator.historical_var (quant/risk/var.py) asked   *)
(* at several confidence levels for one returns sample.                    *)
(***************************************************************************)
EXTENDS Integers, Sequences, FiniteSets, TLC

\* ------------------------------------------------------------------ bounds
MaxBars == 3        \* rows of a price table: 0..MaxBars
MaxPriceStep == 2   \* close prices: 0, CommScale, .., MaxPriceStep * CommScale
MaxSize == 2        \* sizes returned by calculate_position_size: 0..MaxSize
MaxCapital == 5     \* initial_capital is 0 or MaxCapital
CommScale == 2      \* denominator of the commission rate
MaxRows == 3        \* rows of a table given to generate_signals: 0..MaxRows
MaxLookback == 2    \* BreakoutStrategy.lookback_period: 1..MaxLookback
RerunBars == 2      \* rows of the table that is run twice: 0..RerunBars
MaxOps == 2         \* accepted Portfolio.buy / sell calls in a history
MaxCash == 4        \* Portfolio.initial_capital is 0 or MaxCash
MaxPurchases == 2   \* purchases that set a portfolio up for a rebalance
MaxSample == 3      \* returns in a sample given to historical_var: 1..MaxSample
MaxReturn == 2      \* returns of a sample: -MaxReturn..MaxReturn units
ConfidenceSteps == 4  \* confidence levels: 1/ConfidenceSteps, .., 1

\* ------------------------------------------------------- program constants
\* Signal enum (strategies/base.py)
BUY == 1
SELL == -1
HOLD == 0

\* MomentumStrategy defaults (momentum_strategy.py)
RsiOversold == 30
RsiOverbought == 70
\* BreakoutStrategy default volume_multiplier 1.5 = VolMultNum / VolMultDen
VolMultNum == 3
VolMultDen == 2

Signals == {BUY, SELL, HOLD}
Tickers == {"AAA", "BBB"}
Prices == {k * CommScale : k \in 0..MaxPriceStep}
\* A cell of the close column: <<p>> for the number p, <<>> for a null.
Closes == {<<p>> : p \in Prices} \cup {<<>>}
Sizes == 0..MaxSize
Capitals == {0, MaxCapital}
Commissions == {0, 1}
StrategyKinds == {"Mock", "Momentum", "MeanReversion", "Breakout"}

\* --------------------------------------------------------------- fractions
RECURSIVE GCD(_, _)
GCD(a, b) == IF b = 0 THEN a ELSE GCD(b, a % b)

Abs(x) == IF x < 0 THEN -x ELSE x

Sign(x) == IF x < 0 THEN -1 ELSE IF x > 0 THEN 1 ELSE 0

\* The fraction n / d (d # 0) in lowest terms with a positive denominator.
Rat(n, d) ==
    LET g == GCD(Abs(n), Abs(d))
        s == IF d < 0 THEN -1 ELSE 1
    IN  [num |-> (s * n) \div g, den |-> (s * d) \div g]

Zero == [num |-> 0, den |-> 1]

\* ------------------------------------------------------------------- state
VARIABLES
    strategy,         \* the kind of self.strategy (fixed at construction)
    initial_capital,  \* self.initial_capital
    commission,       \* self.commission, as the numerator of commission / CommScale
    cash,             \* self.cash
    portfolio_value,  \* self.portfolio_value
    trades,           \* self.trades, the ledger
    equity_history,   \* self.equity_history
    positions,        \* self.strategy.positions: ticker -> Position
    pc,               \* "idle", "loop" (inside run), "returned", "raised"
    ticker,           \* run's ticker argument
    columns,          \* the columns of the table passed to run
    n,                \* the rows of data_with_signals read so far; its length
                      \* once the loop has ended
    row,              \* the row the loop read last (<<>> before the first)
    position_size,    \* <<q>>: calculate_position_size returned q on this bar
    result,           \* <<r>>: run returned the BacktestResult r
    error,            \* the exception run raised ("" for none)
    lookback_period,  \* BreakoutStrategy.lookback_period
    table,            \* the table given to generate_signals
    signals,          \* <<df>>: generate_signals returned the table df
    db,               \* self.db is a Database (TRUE) or None (FALSE)
    db_calls,         \* the Database methods run has called, in order
    db_error,         \* the Database method that raised during run ("" for none)
    run_no,           \* SpecRerun: the run() call in progress (1, 2), else 0
    tape,             \* SpecRerun: the arguments of the first run() call
    first,            \* SpecRerun: <<r>>, the first result as its caller sees it
    first_shares_ledger,  \* first[1].trades is the list self.trades is bound to
    portfolio,        \* SpecPortfolio: the Portfolio object
    last_call,        \* SpecPortfolio: the last call and how it ended
    rebalance,        \* SpecRebalance: what the Rebalancer computed and executed
    risk              \* SpecVar: a returns sample and the VaR estimates made of it

vars == <<strategy, initial_capital, commission, cash, portfolio_value, trades,
          equity_history, positions, pc, ticker, columns, n, row,
          position_size, result, error, lookback_period, table, signals,
          db, db_calls, db_error, run_no, tape, first, first_shares_ledger,
          portfolio, last_call, rebalance, risk>>

\* the variables of the signal generation alone
signalVars == <<lookback_period, table, signals>>

\* the variables of the two-run scenario alone
rerunVars == <<run_no, tape, first, first_shares_ledger>>

\* the variables of the portfolio alone
portfolioVars == <<portfolio, last_call, rebalance>>

\* No Portfolio has been constructed.
NoPortfolio ==
    /\ portfolio = <<>>
    /\ last_call = <<>>
    /\ rebalance = <<>>

\* the variables of the risk calculations alone
riskVars == <<risk>>

\* No returns sample is being followed.
NoRisk == risk = <<>>

\* No run() call is being followed for a second call.
NoRerun ==
    /\ run_no = 0
    /\ tape = <<>>
    /\ first = <<>>
    /\ first_shares_ledger = FALSE

\* ---------------------------------------------------- Position (base.py)
Position(t, quantity, entry_price, entry_date, side) ==
    [ticker |-> t, quantity |-> quantity, entry_price |-> entry_price,
     entry_date |-> entry_date, side |-> side]

\* Position.pnl
Pnl(position, current_price) ==
    IF position.side = "long"
    THEN (current_price - position.entry_price) * position.quantity
    ELSE (position.entry_price - current_price) * position.quantity

\* Position.pnl_percent; the caller guards entry_price # 0 (ZeroDivisionError)
PnlPercent(position, current_price) ==
    IF position.side = "long"
    THEN Rat((current_price - position.entry_price) * 100, position.entry_price)
    ELSE Rat((position.entry_price - current_price) * 100, position.entry_price)

\* ---------------------------------------- Strategy bookkeeping (base.py)
NoPositions == [t \in {} |-> 0]

AddPosition(ps, position) ==
    [t \in DOMAIN ps \cup {position.ticker} |->
        IF t = position.ticker THEN position ELSE ps[t]]

\* mutant: the position is read but not removed
ClosePositionKeeps(ps, t) == ps

\* close_position: the dict without the ticker (the popped Position is
\* GetPosition of the dict before)
ClosePosition(ps, t) == [u \in DOMAIN ps \ {t} |-> ps[u]]

GetPosition(ps, t) == ps[t]

HasPosition(ps, t) == t \in DOMAIN ps

\* ------------------------------------------- generate_signals validation
RequiredColumns(kind) ==
    CASE kind = "Momentum" -> {"RSI_period", "SMA_fast", "SMA_slow"}
      [] kind = "MeanReversion" -> {"BB_upper", "BB_lower", "BB_middle"}
      [] kind = "Breakout" -> {"high", "low", "volume"}
      [] OTHER -> {}

BaseColumns == {"timestamp", "close"}

\* mutant: no column is checked
GenerateSignalsUnchecked(kind, cols) == ""

\* The exception generate_signals raises on a table with these columns, ""
\* when it returns.  Momentum and MeanReversion check and raise ValueError;
\* Breakout does not check, its first with_columns fails in the table
\* library with ColumnNotFoundError.
GenerateSignalsError(kind, cols) ==
    IF RequiredColumns(kind) \subseteq cols THEN ""
    ELSE IF kind = "Breakout" THEN "ColumnNotFoundError"
    ELSE "ValueError"

\* calculate_position_size of the three reference strategies is
\* capital * position_size_pct / current_price: it raises on a null or zero
\* price.  "" when it returns a quantity.
SizingError(kind, close) ==
    IF kind = "Mock" THEN ""
    ELSE IF close = <<>> THEN "TypeError"
    ELSE IF close[1] = 0 THEN "ZeroDivisionError"
    ELSE ""

\* -------------------------------------------------- engine.py arithmetic
\* notional * self.commission
CommissionCost(notional, rate) == (notional * rate) \div CommScale

\* uuid.uuid4(): the k-th identifier drawn during run() call number run_no.
\* Two draws never give the same identifier.  Where the calls are not
\* numbered (run_no = 0) a state holds the identifiers of one call only.
Uuid(k) == <<"uuid4", run_no, k>>

\* mutant: a cost equal to the cash is refused
CanOpenStrict(size, close_price, cash_, rate) ==
    /\ size > 0
    /\ size * close_price + CommissionCost(size * close_price, rate) < cash_

\* mutant: the cost of an entry is not compared with the cash
CanOpenUnchecked(size, close_price, cash_, rate) == size > 0

\* lines 138-143: the position is opened
CanOpen(size, close_price, cash_, rate) ==
    /\ size > 0
    /\ size * close_price + CommissionCost(size * close_price, rate) <= cash_

\* mutant: the exit commission is not taken from the proceeds
CashAfterExitGross(cash_, position, price, rate) ==
    cash_ + position.quantity * price

\* lines 159-163 / 192-195: cash after the exit
CashAfterExit(cash_, position, price, rate) ==
    LET proceeds == position.quantity * price
    IN  cash_ + (proceeds - CommissionCost(proceeds, rate))

\* mutant: the entry commission is left out of pnl and commission
MakeTradeExitFeeOnly(id, position, price, timestamp, rate) ==
    LET commission_cost == CommissionCost(position.quantity * price, rate)
    IN  [trade_id |-> id,
         ticker |-> position.ticker,
         entry_date |-> position.entry_date,
         exit_date |-> timestamp,
         entry_price |-> position.entry_price,
         exit_price |-> price,
         quantity |-> position.quantity,
         side |-> position.side,
         pnl |-> Pnl(position, price) - commission_cost,
         pnl_percent |-> PnlPercent(position, price),
         commission |-> commission_cost]

\* mutant: the Trade's entry and exit dates are exchanged
MakeTradeDatesSwapped(id, position, price, timestamp, rate) ==
    LET proceeds == position.quantity * price
        commission_cost == CommissionCost(proceeds, rate)
        entry_commission ==
            CommissionCost(position.quantity * position.entry_price, rate)
    IN  [trade_id |-> id,
         ticker |-> position.ticker,
         entry_date |-> timestamp,
         exit_date |-> position.entry_date,
         entry_price |-> position.entry_price,
         exit_price |-> price,
         quantity |-> position.quantity,
         side |-> position.side,
         pnl |-> Pnl(position, price) - (commission_cost + entry_commission),
         pnl_percent |-> PnlPercent(position, price),
         commission |-> commission_cost + entry_commission]

\* lines 166-182 / 197-212: the Trade of a closed position
MakeTrade(id, position, price, timestamp, rate) ==
    LET proceeds == position.quantity * price
        commission_cost == CommissionCost(proceeds, rate)
        entry_commission ==
            CommissionCost(position.quantity * position.entry_price, rate)
    IN  [trade_id |-> id,
         ticker |-> position.ticker,
         entry_date |-> position.entry_date,
         exit_date |-> timestamp,
         entry_price |-> position.entry_price,
         exit_price |-> price,
         quantity |-> position.quantity,
         side |-> position.side,
         pnl |-> Pnl(position, price) - (commission_cost + entry_commission),
         pnl_percent |-> PnlPercent(position, price),
         commission |-> commission_cost + entry_commission]

\* -------------------------------------- PerformanceMetrics (metrics.py)
RECURSIVE SumSeq(_)
SumSeq(s) == IF s = <<>> THEN 0 ELSE s[1] + SumSeq(Tail(s))

RECURSIVE ProdSeq(_)
ProdSeq(s) == IF s = <<>> THEN 1 ELSE s[1] * ProdSeq(Tail(s))

MaxOf(S) == CHOOSE x \in S : \A y \in S : y <= x

MinOf(S) == CHOOSE x \in S : \A y \in S : x <= y

\* np.mean of a non-empty list
Mean(s) == Rat(SumSeq(s), Len(s))

\* mutant: a trade of zero pnl counts as a win
IsWinOrFlat(p) == p >= 0

\* lines 40-41: the partition of the trades' pnl
IsWin(p) == p > 0

IsLoss(p) == p < 0

\* np.maximum.accumulate(equity_values)[t]
CumulativeMax(eq, t) == MaxOf({eq[k] : k \in 1..t})

\* drawdown[t] = equity_values[t] - cumulative_max[t]
Drawdown(eq, t) == eq[t] - CumulativeMax(eq, t)

\* np.argmin: the first index of the minimum
ArgMinDrawdown(eq) ==
    LET m == MinOf({Drawdown(eq, t) : t \in 1..Len(eq)})
    IN  MinOf({t \in 1..Len(eq) : Drawdown(eq, t) = m})

\* returns = np.diff(equity) / equity[:-1], as numerators and denominators.
\* Equity is never negative here; a zero denominator gives inf or nan.
ReturnNum(eq, t) == eq[t + 1] - eq[t]

ReturnDen(eq, t) == eq[t]

ReturnsEqual(eq, s, t) ==
    ReturnNum(eq, s) * ReturnDen(eq, t) = ReturnNum(eq, t) * ReturnDen(eq, s)

\* the sign of np.mean(returns) when every return is finite
MeanReturnSign(eq) ==
    LET T == 1..(Len(eq) - 1)
        term(t) == ReturnNum(eq, t)
                   * ProdSeq([k \in 1..(Len(eq) - 1) |->
                                 IF k = t THEN 1 ELSE ReturnDen(eq, k)])
    IN  Sign(SumSeq([t \in T |-> term(t)]))

\* A Sharpe or Sortino ratio is sqrt(252) * mean / std: only its sign, and
\* whether it is finite, are kept.
Ratio(sign, finite) == [sign |-> sign, finite |-> finite]

ZeroRatio == Ratio(0, TRUE)

\* an inf or a nan
NonFinite == Ratio(0, FALSE)

\* lines 57-61.  np.std of returns holding an inf or a nan is nan, and
\* nan > 0 is false.
SharpeRatio(eq) ==
    LET T == 1..(Len(eq) - 1)
    IN  IF /\ T # {}
           /\ \A t \in T : ReturnDen(eq, t) # 0
           /\ \E s, t \in T : ~ReturnsEqual(eq, s, t)
        THEN Ratio(MeanReturnSign(eq), TRUE)
        ELSE ZeroRatio

\* lines 63-72
SortinoRatio(eq) ==
    LET T == 1..(Len(eq) - 1)
        Neg == {t \in T : ReturnDen(eq, t) # 0 /\ ReturnNum(eq, t) < 0}
    IN  IF \E s, t \in Neg : ~ReturnsEqual(eq, s, t)
        THEN IF \A t \in T : ReturnDen(eq, t) # 0
             THEN Ratio(MeanReturnSign(eq), TRUE)
             ELSE NonFinite
        ELSE ZeroRatio

\* PerformanceMetrics.calculate(equity_curve, trades); eq is the equity column
Calculate(eq, trs) ==
    IF Len(trs) = 0
    THEN [num_trades |-> 0, winning_trades |-> 0, losing_trades |-> 0,
          win_rate |-> Zero, avg_win |-> Zero, avg_loss |-> Zero,
          largest_win |-> 0, largest_loss |-> 0,
          sharpe_ratio |-> ZeroRatio, sortino_ratio |-> ZeroRatio,
          max_drawdown |-> 0, max_drawdown_pct |-> Zero]
    ELSE
      LET pnls == [k \in 1..Len(trs) |-> trs[k].pnl]
          winning_trades == SelectSeq(pnls, IsWin)
          losing_trades == SelectSeq(pnls, IsLoss)
          num_trades == Len(trs)
          pnlSet == {pnls[k] : k \in 1..Len(pnls)}
          trough == ArgMinDrawdown(eq)
          max_drawdown == Drawdown(eq, trough)
      IN  [num_trades |-> num_trades,
           winning_trades |-> Len(winning_trades),
           losing_trades |-> Len(losing_trades),
           win_rate |-> Rat(Len(winning_trades) * 100, num_trades),
           avg_win |-> IF winning_trades # <<>> THEN Mean(winning_trades) ELSE Zero,
           avg_loss |-> IF losing_trades # <<>> THEN Mean(losing_trades) ELSE Zero,
           largest_win |-> MaxOf(pnlSet),
           largest_loss |-> MinOf(pnlSet),
           sharpe_ratio |-> SharpeRatio(eq),
           sortino_ratio |-> SortinoRatio(eq),
           max_drawdown |-> max_drawdown,
           max_drawdown_pct |->
               IF CumulativeMax(eq, trough) > 0
               THEN Rat(Abs(max_drawdown * 100), CumulativeMax(eq, trough))
               ELSE Zero]

\* ------------------------------------------------- BacktestEngine.__init__
\* BacktestEngine(strategy, initial_capital, commission, db), with a Database
\* attached or db = None
Constructed(attached) ==
    /\ strategy \in StrategyKinds
    /\ initial_capital \in Capitals
    /\ commission \in Commissions
    /\ db = attached
    /\ db_calls = <<>>
    /\ db_error = ""
    /\ cash = initial_capital
    /\ portfolio_value = initial_capital
    /\ trades = <<>>
    /\ equity_history = <<>>
    /\ positions = NoPositions
    /\ pc = "idle"
    /\ ticker = "AAA"
    /\ columns = {}
    /\ n = 0
    /\ row = <<>>
    /\ position_size = <<>>
    /\ result = <<>>
    /\ error = ""
    /\ lookback_period = 1
    /\ table = <<>>
    /\ signals = <<>>

Init == Constructed(FALSE) /\ NoRerun /\ NoPortfolio /\ NoRisk

\* ------------------------------------------ BacktestEngine.run, lines 99-107
\* mutant: the strategy's positions survive the reset
ResetStateKeepsPositions ==
    [cash |-> initial_capital,
     portfolio_value |-> initial_capital,
     trades |-> <<>>,
     equity_history |-> <<>>,
     positions |-> positions,
     new_ledger |-> TRUE]

\* mutant: the ledger is emptied in place (self.trades.clear())
ResetStateClearsLedger ==
    [cash |-> initial_capital,
     portfolio_value |-> initial_capital,
     trades |-> <<>>,
     equity_history |-> <<>>,
     positions |-> NoPositions,
     new_ledger |-> FALSE]

\* mutant: the cash of the run before is kept
ResetStateKeepsCash ==
    [cash |-> cash,
     portfolio_value |-> cash,
     trades |-> <<>>,
     equity_history |-> <<>>,
     positions |-> NoPositions,
     new_ledger |-> TRUE]

\* The state reset at the start of run (lines 100-104).  new_ledger: line 102
\* binds self.trades to a new list; the list it named before is left as it is.
ResetState ==
    [cash |-> initial_capital,
     portfolio_value |-> initial_capital,
     trades |-> <<>>,
     equity_history |-> <<>>,
     positions |-> NoPositions,
     new_ledger |-> TRUE]

\* run(data, ticker) is called: the reset, then generate_signals, which raises
\* or returns the table with its signal column.
RunCall(t, cols) ==
    LET failure == GenerateSignalsError(strategy, cols)
    IN  /\ ticker' = t
        /\ columns' = cols
        /\ cash' = ResetState.cash
        /\ portfolio_value' = ResetState.portfolio_value
        /\ trades' = ResetState.trades
        /\ equity_history' = ResetState.equity_history
        /\ positions' = ResetState.positions
        /\ n' = 0
        /\ row' = <<>>
        /\ position_size' = <<>>
        /\ result' = <<>>
        /\ error' = failure
        /\ db_calls' = <<>>
        /\ db_error' = ""
        /\ pc' = IF failure # "" THEN "raised" ELSE "loop"
        /\ UNCHANGED <<strategy, initial_capital, commission, db, signalVars,
                       portfolioVars, riskVars>>

\* the tables a caller may pass: any of the strategy's columns may be missing
TableColumns ==
    {BaseColumns \cup (RequiredColumns(strategy) \ missing) :
        missing \in SUBSET RequiredColumns(strategy)}

RunStart ==
    /\ pc # "loop"
    /\ \E t \in Tickers, cols \in TableColumns : RunCall(t, cols)
    /\ UNCHANGED rerunVars

\* ----------------------------------------- one loop iteration, lines 110-182
EquityRow(timestamp, equity, cash_, signal) ==
    [timestamp |-> timestamp, equity |-> equity, cash |-> cash_, signal |-> signal]

\* mutant: the open position is left out of the valuation
MarkToMarketCashOnly(cash_, ps, t, close_price) == cash_

\* lines 117-121: mark to market
MarkToMarket(cash_, ps, t, close_price) ==
    IF HasPosition(ps, t)
    THEN cash_ + GetPosition(ps, t).quantity * close_price
    ELSE cash_

\* mutant: a BUY is acted on whether or not a position is open
WantsEntryIgnoringPosition(signal, ps, t) == signal = BUY

\* mutant: every signal but SELL opens a position
WantsEntryUnlessSell(signal, ps, t) == signal # SELL /\ ~HasPosition(ps, t)

\* lines 132, 155: what the bar's signal asks of the engine
WantsEntry(signal, ps, t) == signal = BUY /\ ~HasPosition(ps, t)

WantsExit(signal, ps, t) == signal = SELL /\ HasPosition(ps, t)

\* The engine after the loop body on row r, with size the quantity
\* calculate_position_size returns if it is asked.  err is the exception
\* that ended the iteration ("" for none); the fields are the engine's as the
\* exception left them.
BarOutcome(r, size) ==
    LET held == HasPosition(positions, ticker)
        same == [cash |-> cash, portfolio_value |-> portfolio_value,
                 trades |-> trades, equity_history |-> equity_history,
                 positions |-> positions, position_size |-> <<>>, err |-> ""]
    IN  IF held /\ r.close = <<>>
        THEN [same EXCEPT !.err = "TypeError"]            \* line 119
        ELSE
          LET pv == IF r.close = <<>> THEN cash
                    ELSE MarkToMarket(cash, positions, ticker, r.close[1])
              marked == [same EXCEPT
                            !.portfolio_value = pv,
                            !.equity_history =
                                Append(equity_history,
                                       EquityRow(r.timestamp, pv, cash, r.signal))]
          IN  IF WantsEntry(r.signal, positions, ticker)
              THEN
                IF SizingError(strategy, r.close) # ""
                THEN [marked EXCEPT !.err = SizingError(strategy, r.close)]
                ELSE IF size <= 0
                THEN [marked EXCEPT !.position_size = <<size>>]
                ELSE IF r.close = <<>>
                THEN [marked EXCEPT !.position_size = <<size>>,
                                    !.err = "TypeError"]  \* line 139
                ELSE IF CanOpen(size, r.close[1], cash, commission)
                THEN [marked EXCEPT
                        !.position_size = <<size>>,
                        !.cash = cash - (size * r.close[1]
                                         + CommissionCost(size * r.close[1], commission)),
                        !.positions =
                            AddPosition(positions,
                                Position(ticker, size, r.close[1], r.timestamp, "long"))]
                ELSE [marked EXCEPT !.position_size = <<size>>]
              ELSE IF WantsExit(r.signal, positions, ticker)
              THEN
                LET position == GetPosition(positions, ticker)
                    sold == [marked EXCEPT
                               !.positions = ClosePosition(positions, ticker),
                               !.cash = CashAfterExit(cash, position, r.close[1],
                                                      commission)]
                IN  IF position.entry_price = 0
                    THEN [sold EXCEPT !.err = "ZeroDivisionError"]   \* line 167
                    ELSE [sold EXCEPT
                            !.trades =
                                Append(trades,
                                    MakeTrade(Uuid(Len(trades) + 1), position,
                                              r.close[1], r.timestamp, commission))]
              ELSE marked

\* The loop body on the next row of the table, row n + 1.
BarStep(close, signal, size) ==
    LET r == [timestamp |-> n + 1, close |-> close, signal |-> signal]
        out == BarOutcome(r, size)
    IN  /\ row' = r
        /\ cash' = out.cash
        /\ portfolio_value' = out.portfolio_value
        /\ trades' = out.trades
        /\ equity_history' = out.equity_history
        /\ positions' = out.positions
        /\ position_size' = out.position_size
        /\ error' = out.err
        /\ n' = n + 1
        /\ pc' = IF out.err # "" THEN "raised" ELSE "loop"
        /\ UNCHANGED <<strategy, initial_capital, commission, ticker, columns,
                       result, db, db_calls, db_error, signalVars, portfolioVars,
                       riskVars>>

\* the quantities calculate_position_size may return on a bar with this
\* signal (it is called on an entry only)
SizesAsked(signal) ==
    IF WantsEntry(signal, positions, ticker) THEN Sizes ELSE {0}

\* The table has a row after the n read so far: the loop body runs on it.
Bar ==
    /\ pc = "loop"
    /\ n < MaxBars
    /\ \E close \in Closes, signal \in Signals :
       \E size \in SizesAsked(signal) : BarStep(close, signal, size)
    /\ UNCHANGED rerunVars

\* ------------------------------------------ after the loop, lines 184-252
\* lines 223-246
BacktestResult(run_id, end_date, final_value, metrics, trs, eqh) ==
    [run_id |-> run_id,
     strategy_name |-> strategy,
     start_date |-> 1,
     end_date |-> end_date,
     initial_capital |-> initial_capital,
     final_value |-> final_value,
     total_return |-> final_value - initial_capital,
     total_return_pct |-> Rat((final_value - initial_capital) * 100, initial_capital),
     num_trades |-> metrics.num_trades,
     winning_trades |-> metrics.winning_trades,
     losing_trades |-> metrics.losing_trades,
     win_rate |-> metrics.win_rate,
     avg_win |-> metrics.avg_win,
     avg_loss |-> metrics.avg_loss,
     largest_win |-> metrics.largest_win,
     largest_loss |-> metrics.largest_loss,
     sharpe_ratio |-> metrics.sharpe_ratio,
     sortino_ratio |-> metrics.sortino_ratio,
     max_drawdown |-> metrics.max_drawdown,
     max_drawdown_pct |-> metrics.max_drawdown_pct,
     trades |-> trs,
     equity_curve |-> eqh]

EquityColumn(eqh) == [k \in 1..Len(eqh) |-> eqh[k].equity]

\* The engine after lines 184-246: the force-close of a position the loop
\* left open, at the last row's close and timestamp, then the metrics and the
\* result.  err is the exception raised on the way ("" for none).
FinishOutcome ==
    LET same == [cash |-> cash, portfolio_value |-> portfolio_value,
                 trades |-> trades, positions |-> positions,
                 result |-> <<>>, err |-> ""]
        final_row == row
        closed ==
            IF HasPosition(positions, ticker)
            THEN LET position == GetPosition(positions, ticker)
                     sold == [same EXCEPT
                                !.positions = ClosePosition(positions, ticker),
                                !.cash = CashAfterExit(cash, position,
                                                       final_row.close[1], commission)]
                 IN  IF position.entry_price = 0
                     THEN [sold EXCEPT !.err = "ZeroDivisionError"]  \* line 198
                     ELSE [sold EXCEPT
                             !.trades =
                                 Append(trades,
                                     MakeTrade(Uuid(Len(trades) + 1), position,
                                               final_row.close[1], final_row.timestamp,
                                               commission))]
            ELSE same
    IN  IF closed.err # "" THEN closed
        ELSE
          LET valued == [closed EXCEPT !.portfolio_value = closed.cash]
              metrics == Calculate(EquityColumn(equity_history), closed.trades)
          IN  IF n = 0
              THEN [valued EXCEPT !.err = "IndexError"]              \* line 226
              ELSE IF initial_capital = 0
              THEN [valued EXCEPT !.err = "ZeroDivisionError"]       \* line 231
              ELSE [valued EXCEPT
                      !.result =
                          <<BacktestResult(Uuid(Len(closed.trades) + 1), n,
                                           closed.cash, metrics, closed.trades,
                                           equity_history)>>]

\* _save_to_database (lines 254-279): the Database methods it calls for the
\* result r, in order; save_trades only when the result has trades.
SaveCalls(r) ==
    IF r.trades # <<>>
    THEN <<"save_backtest_run", "save_trades">>
    ELSE <<"save_backtest_run">>

\* Lines 184-252 when the fails-th Database call raises (0: none does).  An
\* exception of a Database method is caught nowhere in _save_to_database or
\* run: it leaves run, and the result is not returned.
FinishStep(fails) ==
    LET out == FinishOutcome
        calls == IF db /\ out.err = "" THEN SaveCalls(out.result[1]) ELSE <<>>
        raised == fails # 0
    IN  /\ fails \in 0..Len(calls)
        /\ cash' = out.cash
        /\ portfolio_value' = out.portfolio_value
        /\ trades' = out.trades
        /\ positions' = out.positions
        /\ db_calls' = IF raised THEN SubSeq(calls, 1, fails) ELSE calls
        /\ db_error' = IF raised THEN calls[fails] ELSE ""
        /\ result' = IF raised THEN <<>> ELSE out.result
        /\ error' = IF raised THEN "DatabaseError" ELSE out.err
        /\ pc' = IF out.err # "" \/ raised THEN "raised" ELSE "returned"
        /\ UNCHANGED <<strategy, initial_capital, commission, equity_history,
                       ticker, columns, n, row, position_size, db, signalVars,
                       portfolioVars, riskVars>>

\* The table has no row after the n read so far: the loop ends.
Finish ==
    /\ pc = "loop"
    /\ \E fails \in 0..2 : FinishStep(fails)
    /\ UNCHANGED rerunVars

Next == RunStart \/ Bar \/ Finish

Spec == Init /\ [][Next]_vars

\* ------------------------------------------- the engine with a Database
InitDb == Constructed(TRUE) /\ NoRerun /\ NoPortfolio /\ NoRisk

SpecDb == InitDb /\ [][Next]_vars

\* --------------------------------------- run() twice on the same engine
\* The caller keeps the BacktestResult of the first call and calls run()
\* again on the table of the first call (the tape), with any ticker.
\*
\* BacktestResult.trades is the list object self.trades names when the result
\* is built (line 244): until self.trades is bound to another list, what the
\* engine does to its ledger is done to the result's trades.
CallerView ==
    IF first # <<>> /\ first_shares_ledger
    THEN <<[first[1] EXCEPT !.trades = trades']>>
    ELSE first

\* The engine drives the reference strategy of the round trip or the
\* strategy of the engine's tests, on a capital it can trade with.
InitRerun ==
    /\ Constructed(FALSE)
    /\ strategy \in {"Breakout", "Mock"}
    /\ initial_capital = MaxCapital
    /\ NoRerun
    /\ NoPortfolio
    /\ NoRisk

RerunStart ==
    \/ /\ run_no = 0
       /\ pc = "idle"
       /\ run_no' = 1
       /\ \E t \in {"AAA"}, cols \in TableColumns :
            /\ RunCall(t, cols)
            /\ tape' = [ticker |-> t, columns |-> cols, bars |-> <<>>]
       /\ UNCHANGED <<first, first_shares_ledger>>
    \/ /\ run_no = 1
       /\ pc = "returned"
       /\ run_no' = 2
       /\ \E t \in Tickers : RunCall(t, tape.columns)
       /\ first_shares_ledger' = (first_shares_ledger /\ ~ResetState.new_ledger)
       /\ first' = IF first_shares_ledger'
                   THEN <<[first[1] EXCEPT !.trades = trades']>>
                   ELSE first
       /\ UNCHANGED tape

\* calculate_position_size is a function of its arguments (the table, the
\* cash, the price): asked again with the arguments of the first run it
\* returns what it returned then.
SizesAskedAgain(b) ==
    IF ~WantsEntry(b.signal, positions, ticker) THEN {0}
    ELSE IF b.asked /\ b.cash = cash THEN {b.size}
    ELSE Sizes

RerunBar ==
    /\ pc = "loop"
    /\ \/ /\ run_no = 1
          /\ n < RerunBars
          /\ \E close \in Closes, signal \in Signals :
             \E size \in SizesAsked(signal) :
               /\ BarStep(close, signal, size)
               /\ tape' = [tape EXCEPT !.bars =
                              Append(@, [close |-> close, signal |-> signal,
                                         asked |-> WantsEntry(signal, positions, ticker),
                                         cash |-> cash, size |-> size])]
       \/ /\ run_no = 2
          /\ n < Len(tape.bars)
          /\ \E size \in SizesAskedAgain(tape.bars[n + 1]) :
               BarStep(tape.bars[n + 1].close, tape.bars[n + 1].signal, size)
          /\ UNCHANGED tape
    /\ first' = CallerView
    /\ UNCHANGED <<run_no, first_shares_ledger>>

RerunFinish ==
    /\ pc = "loop"
    /\ run_no = 2 => n = Len(tape.bars)
    /\ FinishStep(0)
    /\ IF run_no = 1
       THEN /\ first' = result'
            /\ first_shares_ledger' = (result' # <<>>)
       ELSE /\ first' = CallerView
            /\ UNCHANGED first_shares_ledger
    /\ UNCHANGED <<run_no, tape>>

NextRerun == RerunStart \/ RerunBar \/ RerunFinish

SpecRerun == InitRerun /\ [][NextRerun]_vars

\* =================================================== generate_signals
\* A cell of a numeric column is <<v>> or the null <<>>.  A boolean column
\* holds "T", "F" or the null "N"; comparisons and & | follow the table
\* library (a comparison with a null is null, Kleene logic for & and |).
Null == <<>>

Gt(a, b) == IF a = Null \/ b = Null THEN "N" ELSE IF a[1] > b[1] THEN "T" ELSE "F"

Lt(a, b) == Gt(b, a)

Ge(a, b) == IF a = Null \/ b = Null THEN "N" ELSE IF a[1] >= b[1] THEN "T" ELSE "F"

Le(a, b) == Ge(b, a)

And3(x, y) ==
    IF x = "F" \/ y = "F" THEN "F" ELSE IF x = "T" /\ y = "T" THEN "T" ELSE "N"

Or3(x, y) ==
    IF x = "T" \/ y = "T" THEN "T" ELSE IF x = "F" /\ y = "F" THEN "F" ELSE "N"

\* pl.col(c).shift(1) at row t
Shift1(df, c, t) == IF t = 1 THEN Null ELSE df[t - 1][c]

\* mutant: the SELL branch comes first
WhenThenSellFirst(buy, sell) ==
    IF sell = "T" THEN SELL ELSE IF buy = "T" THEN BUY ELSE HOLD

\* pl.when(buy).then(BUY).when(sell).then(SELL).otherwise(HOLD): a null
\* condition does not select its branch
WhenThen(buy, sell) ==
    IF buy = "T" THEN BUY ELSE IF sell = "T" THEN SELL ELSE HOLD

\* mutant: the first row, whose shifted values are null, is dropped
WithSignalDropFirst(df, sig) ==
    [t \in 1..(Len(df) - 1) |-> df[t + 1] @@ ("signal" :> sig[t + 1])]

\* the table with the signal column appended
WithSignal(df, sig) ==
    [t \in 1..Len(df) |-> df[t] @@ ("signal" :> sig[t])]

\* ----------------------------- MomentumStrategy.generate_signals, 77-116
MomentumBuy(df, t) ==
    LET rsi == df[t].rsi
        rsi_cross_above_oversold ==
            And3(Gt(rsi, <<RsiOversold>>), Le(Shift1(df, "rsi", t), <<RsiOversold>>))
        uptrend == Gt(df[t].fast_ma, df[t].slow_ma)
    IN  And3(rsi_cross_above_oversold, uptrend)

MomentumSell(df, t) ==
    LET rsi == df[t].rsi
        rsi_cross_above_overbought ==
            And3(Gt(rsi, <<RsiOverbought>>),
                 Le(Shift1(df, "rsi", t), <<RsiOverbought>>))
        ma_bearish_cross ==
            And3(Lt(df[t].fast_ma, df[t].slow_ma),
                 Ge(Shift1(df, "fast_ma", t), Shift1(df, "slow_ma", t)))
    IN  Or3(rsi_cross_above_overbought, ma_bearish_cross)

MomentumSignal(df, t) == WhenThen(MomentumBuy(df, t), MomentumSell(df, t))

\* ------------------------ MeanReversionStrategy.generate_signals, 63-88
MeanReversionBuy(df, t) == Le(df[t].close, df[t].BB_lower)

MeanReversionSell(df, t) ==
    LET at_upper_band == Ge(df[t].close, df[t].BB_upper)
        was_below_middle == Lt(Shift1(df, "close", t), df[t].BB_middle)
        at_or_above_middle == Ge(df[t].close, df[t].BB_middle)
    IN  Or3(at_upper_band, And3(was_below_middle, at_or_above_middle))

MeanReversionSignal(df, t) ==
    WhenThen(MeanReversionBuy(df, t), MeanReversionSell(df, t))

\* ----------------------------- BreakoutStrategy.generate_signals, 54-96
\* rolling_max / rolling_min / rolling_mean(window_size = w) at row t: null
\* until w rows are in the window
RollingMax(df, c, w, t) ==
    IF t < w THEN Null ELSE <<MaxOf({df[k][c][1] : k \in (t - w + 1)..t})>>

RollingMin(df, c, w, t) ==
    IF t < w THEN Null ELSE <<MinOf({df[k][c][1] : k \in (t - w + 1)..t})>>

RollingSum(df, c, w, t) ==
    IF t < w THEN Null ELSE <<SumSeq([k \in 1..w |-> df[t - w + k][c][1]])>>

Resistance(df, w, t) == IF t = 1 THEN Null ELSE RollingMax(df, "high", w, t - 1)

\* mutant: the rolling minimum is not shifted, its window ends on bar t
SupportUnshifted(df, w, t) == RollingMin(df, "low", w, t)

Support(df, w, t) == IF t = 1 THEN Null ELSE RollingMin(df, "low", w, t - 1)

\* volume > avg_volume * volume_multiplier, with avg_volume = sum / w
HighVolume(df, w, t) ==
    LET sum == RollingSum(df, "volume", w, t)
    IN  IF sum = Null THEN "N"
        ELSE Gt(<<df[t].volume[1] * w * VolMultDen>>, <<sum[1] * VolMultNum>>)

BreakoutBuy(df, w, t) ==
    And3(Gt(df[t].close, Resistance(df, w, t)), HighVolume(df, w, t))

BreakoutSell(df, w, t) == Lt(df[t].close, Support(df, w, t))

BreakoutSignal(df, w, t) == WhenThen(BreakoutBuy(df, w, t), BreakoutSell(df, w, t))

\* ------------------------------------------------ the tables of the model
Levels == {<<1>>, <<2>>}

RsiCells == {Null, <<20>>, <<50>>, <<80>>}

MomentumRows ==
    {[rsi |-> r, fast_ma |-> m[1], slow_ma |-> m[2]] :
        r \in RsiCells,
        m \in {<<Null, Null>>, <<<<1>>, Null>>, <<<<1>>, <<2>>>>, <<<<2>>, <<1>>>>,
               <<<<1>>, <<1>>>>}}

\* Bollinger bands are null together (warm-up) or ordered
MeanReversionRows ==
    {[close |-> c, BB_lower |-> b[1], BB_middle |-> b[2], BB_upper |-> b[3]] :
        c \in Levels,
        b \in {<<Null, Null, Null>>}
              \cup {x \in Levels \X Levels \X Levels :
                        x[1][1] <= x[2][1] /\ x[2][1] <= x[3][1]}}

\* bars with low <= close <= high
BreakoutRows ==
    {r \in [low : Levels, close : Levels, high : Levels, volume : {<<1>>, <<4>>}] :
        r.low[1] <= r.close[1] /\ r.close[1] <= r.high[1]}

RowsOf(kind) ==
    CASE kind = "Momentum" -> MomentumRows
      [] kind = "MeanReversion" -> MeanReversionRows
      [] kind = "Breakout" -> BreakoutRows

TablesOf(kind) == UNION {[1..len -> RowsOf(kind)] : len \in 0..MaxRows}

\* A strategy is constructed and a table with every column it requires is
\* at hand; the engine is idle.
InitSignals ==
    /\ strategy \in {"Momentum", "MeanReversion", "Breakout"}
    /\ lookback_period \in 1..MaxLookback
    /\ strategy # "Breakout" => lookback_period = 1
    /\ table \in TablesOf(strategy)
    /\ signals = <<>>
    /\ initial_capital = MaxCapital
    /\ commission = 0
    /\ cash = initial_capital
    /\ portfolio_value = initial_capital
    /\ trades = <<>>
    /\ equity_history = <<>>
    /\ positions = NoPositions
    /\ pc = "idle"
    /\ ticker = "AAA"
    /\ columns = {}
    /\ n = 0
    /\ row = <<>>
    /\ position_size = <<>>
    /\ result = <<>>
    /\ error = ""
    /\ db = FALSE
    /\ db_calls = <<>>
    /\ db_error = ""
    /\ NoRerun
    /\ NoPortfolio
    /\ NoRisk

engineVars == <<strategy, initial_capital, commission, cash, portfolio_value,
                trades, equity_history, positions, pc, ticker, columns, n, row,
                position_size, result, error, db, db_calls, db_error, rerunVars>>

MomentumGenerateSignals ==
    /\ strategy = "Momentum"
    /\ signals = <<>>
    /\ signals' =
           <<WithSignal(table, [t \in 1..Len(table) |-> MomentumSignal(table, t)])>>
    /\ UNCHANGED <<engineVars, riskVars, portfolioVars, lookback_period, table>>

MeanReversionGenerateSignals ==
    /\ strategy = "MeanReversion"
    /\ signals = <<>>
    /\ signals' =
           <<WithSignal(table, [t \in 1..Len(table) |-> MeanReversionSignal(table, t)])>>
    /\ UNCHANGED <<engineVars, riskVars, portfolioVars, lookback_period, table>>

BreakoutGenerateSignals ==
    /\ strategy = "Breakout"
    /\ signals = <<>>
    /\ signals' =
           <<WithSignal(table, [t \in 1..Len(table) |-> BreakoutSignal(table, lookback_period, t)])>>
    /\ UNCHANGED <<engineVars, riskVars, portfolioVars, lookback_period, table>>

NextSignals ==
    \/ MomentumGenerateSignals
    \/ MeanReversionGenerateSignals
    \/ BreakoutGenerateSignals

SpecSignals == InitSignals /\ [][NextSignals]_vars

\* ===================================================== Portfolio, Rebalancer
\* Every number of a portfolio is kept as a fraction in lowest terms (a
\* repeat buy divides a cost by a quantity, a rebalance divides a value by a
\* price).
R(k) == Rat(k, 1)

RAdd(a, b) == Rat(a.num * b.den + b.num * a.den, a.den * b.den)

RSub(a, b) == Rat(a.num * b.den - b.num * a.den, a.den * b.den)

RMul(a, b) == Rat(a.num * b.num, a.den * b.den)

\* a / b, b # 0
RDiv(a, b) == Rat(a.num * b.den, a.den * b.num)

RLt(a, b) == a.num * b.den < b.num * a.den

RLe(a, b) == a.num * b.den <= b.num * a.den

RAbs(a) == [num |-> Abs(a.num), den |-> a.den]

RECURSIVE RSum(_)
RSum(s) == IF s = <<>> THEN Zero ELSE RAdd(s[1], RSum(Tail(s)))

Quantities == {R(0), R(1), R(2)}
PfPrices == {R(0), R(2)}
Fees == {R(0), R(1)}
PfCapitals == {R(0), R(MaxCash)}

\* ------------------------------------------------- Holding (portfolio.py)
\* Holding(ticker, quantity, avg_price, current_price) and its __post_init__
Holding(t, quantity, avg_price, current_price) ==
    LET cost_basis == RMul(quantity, avg_price)
        market_value == RMul(quantity, current_price)
        unrealized_pnl == RSub(market_value, cost_basis)
    IN  [ticker |-> t,
         quantity |-> quantity,
         avg_price |-> avg_price,
         current_price |-> current_price,
         market_value |-> market_value,
         cost_basis |-> cost_basis,
         unrealized_pnl |-> unrealized_pnl,
         unrealized_pnl_pct |->
             IF RLt(Zero, cost_basis)
             THEN RMul(RDiv(unrealized_pnl, cost_basis), R(100))
             ELSE Zero,
         weight |-> Zero]

\* ----------------------------------------------- Portfolio (portfolio.py)
\* Portfolio(name, initial_capital): cash starts as the initial capital.
\* holdings is the dict in its insertion order, one Holding per ticker.
NewPortfolio(capital) ==
    [initial_capital |-> capital,
     cash |-> capital,
     holdings |-> <<>>,
     transaction_history |-> <<>>]

\* the keys of self.holdings
HeldTickers(p) == {p.holdings[k].ticker : k \in 1..Len(p.holdings)}

\* the position of self.holdings[t] in the dict
HoldingIndex(p, t) == CHOOSE k \in 1..Len(p.holdings) : p.holdings[k].ticker = t

HoldingOf(p, t) == p.holdings[HoldingIndex(p, t)]

\* Portfolio.total_value
TotalValue(p) ==
    RAdd(p.cash, RSum([k \in 1..Len(p.holdings) |-> p.holdings[k].market_value]))

\* a record of the transaction history (the wall-clock timestamp is left out)
Transaction(type, t, quantity, price, fee, value) ==
    [type |-> type, ticker |-> t, quantity |-> quantity, price |-> price,
     commission |-> fee, value |-> value]

\* mutant: the transaction is not written to the history
NotRecorded(p, tx) == p

\* lines 137-147, 184-194: the transaction is appended to the history
Recorded(p, tx) == [p EXCEPT !.transaction_history = Append(@, tx)]

\* mutant: a purchase is refused only when it overdraws the cash by more
\* than one
BuyRefusedLate(cash_, cost) == RLt(RAdd(cash_, R(1)), cost)

\* line 114: the purchase is refused
BuyRefused(cash_, cost) == RLt(cash_, cost)

\* Portfolio.buy(ticker, quantity, price, commission): the portfolio after
\* the call and the exception it raised ("" when it returned).
Buy(p, t, quantity, price, fee) ==
    LET cost == RAdd(RMul(quantity, price), fee)
        paid == Recorded([p EXCEPT !.cash = RSub(@, cost)],
                         Transaction("BUY", t, quantity, price, fee, cost))
    IN  IF BuyRefused(p.cash, cost)
        THEN [portfolio |-> p, err |-> "ValueError"]
        ELSE IF t \in HeldTickers(p)
        THEN
          LET k == HoldingIndex(p, t)
              holding == p.holdings[k]
              total_cost == RAdd(holding.cost_basis, cost)
              total_quantity == RAdd(holding.quantity, quantity)
          IN  IF total_quantity = Zero
              THEN \* line 124 divides by zero; line 123 has stored the
                   \* quantity, which is the zero it was
                   [portfolio |-> [p EXCEPT !.holdings[k].quantity = total_quantity],
                    err |-> "ZeroDivisionError"]
              ELSE [portfolio |->
                        [paid EXCEPT !.holdings[k] =
                            [holding EXCEPT
                                !.quantity = total_quantity,
                                !.avg_price = RDiv(total_cost, total_quantity),
                                !.cost_basis = total_cost]],
                    err |-> ""]
        ELSE [portfolio |->
                  [paid EXCEPT !.holdings =
                      Append(@, Holding(t, quantity, price, price))],
              err |-> ""]

\* the dict without the key at position k
WithoutHolding(hs, k) == SubSeq(hs, 1, k - 1) \o SubSeq(hs, k + 1, Len(hs))

\* Portfolio.sell(ticker, quantity, price, commission)
Sell(p, t, quantity, price, fee) ==
    IF t \notin HeldTickers(p)
    THEN [portfolio |-> p, err |-> "ValueError"]
    ELSE
      LET k == HoldingIndex(p, t)
          holding == p.holdings[k]
          proceeds == RSub(RMul(quantity, price), fee)
          left == RSub(holding.quantity, quantity)
          paid == Recorded([p EXCEPT !.cash = RAdd(@, proceeds)],
                           Transaction("SELL", t, quantity, price, fee, proceeds))
      IN  IF RLt(holding.quantity, quantity)
          THEN [portfolio |-> p, err |-> "ValueError"]
          ELSE IF quantity = holding.quantity
          THEN [portfolio |-> [paid EXCEPT !.holdings = WithoutHolding(@, k)],
                err |-> ""]
          ELSE [portfolio |->
                    [paid EXCEPT !.holdings[k] =
                        [holding EXCEPT
                            !.quantity = left,
                            !.cost_basis = RMul(left, holding.avg_price)]],
                err |-> ""]

\* lines 207-213: the holding after update_prices saw it; prices maps the
\* tickers that have a price
Repriced(holding, prices) ==
    IF holding.ticker \in DOMAIN prices
    THEN LET market_value == RMul(holding.quantity, prices[holding.ticker])
             unrealized_pnl == RSub(market_value, holding.cost_basis)
         IN  [holding EXCEPT
                 !.current_price = prices[holding.ticker],
                 !.market_value = market_value,
                 !.unrealized_pnl = unrealized_pnl,
                 !.unrealized_pnl_pct =
                     IF RLt(Zero, holding.cost_basis)
                     THEN RMul(RDiv(unrealized_pnl, holding.cost_basis), R(100))
                     ELSE @]
    ELSE holding

\* Portfolio.update_prices(prices)
UpdatePrices(p, prices) ==
    LET repriced == [k \in 1..Len(p.holdings) |-> Repriced(p.holdings[k], prices)]
        total_value ==
            RAdd(p.cash, RSum([k \in 1..Len(repriced) |-> repriced[k].market_value]))
    IN  [p EXCEPT !.holdings =
            IF RLt(Zero, total_value)
            THEN [k \in 1..Len(repriced) |->
                    [repriced[k] EXCEPT
                        !.weight = RMul(RDiv(repriced[k].market_value, total_value),
                                        R(100))]]
            ELSE repriced]

\* Portfolio.get_allocation: ticker -> weight, in the order of the holdings
GetAllocation(p) == [k \in 1..Len(p.holdings) |->
                        [ticker |-> p.holdings[k].ticker,
                         weight |-> p.holdings[k].weight]]

\* the price dicts a caller may pass: any ticker may lack a price
PriceDicts == UNION {[T -> PfPrices] : T \in SUBSET Tickers}

\* ------------------------------------------------- the portfolio's calls
\* The engine of the other specifications stands idle.
EngineIdle ==
    /\ Constructed(FALSE)
    /\ strategy = "Mock"
    /\ initial_capital = MaxCapital
    /\ commission = 0
    /\ NoRerun

\* What is kept of a call of buy or sell: how it ended, the arguments of a
\* call that returned, and for every call whether its arguments overdrew the
\* cash (buy), named a ticker without a holding (sell) or asked for more
\* than the holding has (sell).
Call(op, p, t, quantity, price, fee, err) ==
    [op |-> op,
     err |-> err,
     args |-> IF err = ""
              THEN <<[ticker |-> t, quantity |-> quantity, price |-> price,
                      commission |-> fee]>>
              ELSE <<>>,
     overdrawn |-> op = "buy" /\ RLt(p.cash, RAdd(RMul(quantity, price), fee)),
     unheld |-> op = "sell" /\ t \notin HeldTickers(p),
     oversold |-> /\ op = "sell"
                  /\ t \in HeldTickers(p)
                  /\ RLt(HoldingOf(p, t).quantity, quantity)]

\* a call that takes no such arguments
PlainCall(op) ==
    [op |-> op, err |-> "", args |-> <<>>, overdrawn |-> FALSE,
     unheld |-> FALSE, oversold |-> FALSE]

\* Portfolio(name, initial_capital)
InitPortfolio ==
    /\ EngineIdle
    /\ NoRisk
    /\ portfolio \in {NewPortfolio(capital) : capital \in PfCapitals}
    /\ last_call = PlainCall("Portfolio")
    /\ rebalance = <<>>

CallBuy ==
    /\ Len(portfolio.transaction_history) < MaxOps
    /\ \E t \in Tickers, quantity \in Quantities, price \in PfPrices, fee \in Fees :
         LET out == Buy(portfolio, t, quantity, price, fee)
         IN  /\ portfolio' = out.portfolio
             /\ last_call' = Call("buy", portfolio, t, quantity, price, fee, out.err)
    /\ UNCHANGED <<engineVars, riskVars, signalVars, rebalance>>

CallSell ==
    /\ Len(portfolio.transaction_history) < MaxOps
    /\ \E t \in Tickers, quantity \in Quantities, price \in PfPrices, fee \in Fees :
         LET out == Sell(portfolio, t, quantity, price, fee)
         IN  /\ portfolio' = out.portfolio
             /\ last_call' = Call("sell", portfolio, t, quantity, price, fee, out.err)
    /\ UNCHANGED <<engineVars, riskVars, signalVars, rebalance>>

CallUpdatePrices ==
    /\ \E prices \in PriceDicts :
         /\ portfolio' = UpdatePrices(portfolio, prices)
         /\ last_call' = PlainCall("update_prices")
    /\ UNCHANGED <<engineVars, riskVars, signalVars, rebalance>>

NextPortfolio == CallBuy \/ CallSell \/ CallUpdatePrices

SpecPortfolio == InitPortfolio /\ [][NextPortfolio]_vars

\* ---------------------------------------------- Rebalancer (rebalancer.py)
\* target_weights is the dict in its insertion order: a sequence of
\* [ticker, weight] without a repeated ticker, the weight in percent.
TargetTickers(target_weights) ==
    {target_weights[k].ticker : k \in 1..Len(target_weights)}

\* current_allocation.get(ticker, 0.0)
CurrentWeight(p, t) == IF t \in HeldTickers(p) THEN HoldingOf(p, t).weight ELSE Zero

\* lines 57-80, one turn of the loop over target_weights: the orders so far
\* with the order for this ticker, if it gets one, and the exception raised
TargetOrder(p, target, current_prices, min_trade_value, so_far) ==
    LET weight_diff == RSub(target.weight, CurrentWeight(p, target.ticker))
        value_diff == RMul(RDiv(weight_diff, R(100)), TotalValue(p))
    IN  IF so_far.err # ""
        THEN so_far
        ELSE IF RLt(RAbs(value_diff), min_trade_value)
        THEN so_far
        ELSE IF target.ticker \notin DOMAIN current_prices
        THEN so_far
        ELSE IF current_prices[target.ticker] = Zero
        THEN [trades |-> so_far.trades, err |-> "ZeroDivisionError"]
        ELSE [trades |->
                  Append(so_far.trades,
                         [ticker |-> target.ticker,
                          action |-> IF RLt(Zero, value_diff) THEN "BUY" ELSE "SELL",
                          quantity |-> RDiv(RAbs(value_diff),
                                            current_prices[target.ticker])]),
              err |-> ""]

\* the loop over the first k targets (each turn takes the value the turns
\* before it left)
RECURSIVE TargetOrders(_, _, _, _, _)
TargetOrders(p, target_weights, current_prices, min_trade_value, k) ==
    IF k = 0
    THEN [trades |-> <<>>, err |-> ""]
    ELSE CHOOSE after \in
             {TargetOrder(p, target_weights[k], current_prices, min_trade_value,
                          so_far) :
                  so_far \in {TargetOrders(p, target_weights, current_prices,
                                           min_trade_value, k - 1)}} : TRUE

\* lines 83-87: a SELL of the whole holding for every held ticker that has no
\* target, in the order of the holdings
ExitOrders(p, target_weights) ==
    LET RECURSIVE upto(_)
        upto(k) ==
            IF k = 0
            THEN <<>>
            ELSE IF p.holdings[k].ticker \in TargetTickers(target_weights)
            THEN upto(k - 1)
            ELSE Append(upto(k - 1),
                        [ticker |-> p.holdings[k].ticker,
                         action |-> "SELL",
                         quantity |-> p.holdings[k].quantity])
    IN  upto(Len(p.holdings))

\* lines 52-89 on the portfolio that update_prices left
TradesFor(priced, target_weights, current_prices, min_trade_value) ==
    LET targets == TargetOrders(priced, target_weights, current_prices,
                                min_trade_value, Len(target_weights))
    IN  IF targets.err # ""
        THEN [portfolio |-> priced, trades |-> <<>>, err |-> targets.err]
        ELSE [portfolio |-> priced,
              trades |-> targets.trades \o ExitOrders(priced, target_weights),
              err |-> ""]

\* Rebalancer.calculate_trades(target_weights, current_prices,
\* min_trade_value): the portfolio after its update_prices, the orders it
\* returns and the exception it raised ("" when it returned).
CalculateTrades(p, target_weights, current_prices, min_trade_value) ==
    CHOOSE calc \in
        {TradesFor(priced, target_weights, current_prices, min_trade_value) :
             priced \in {UpdatePrices(p, current_prices)}} : TRUE

\* lines 115-135, one turn of the loop over the orders
ExecuteOrder(order, current_prices, fee, so_far) ==
    IF so_far.err # ""
    THEN so_far
    ELSE IF order.ticker \notin DOMAIN current_prices
    THEN \* line 116, outside the try
         [so_far EXCEPT !.err = "KeyError"]
    ELSE
      LET price == current_prices[order.ticker]
          out == IF order.action = "BUY"
                 THEN Buy(so_far.portfolio, order.ticker, order.quantity, price, fee)
                 ELSE Sell(so_far.portfolio, order.ticker, order.quantity, price, fee)
      IN  IF out.err = ""
          THEN [portfolio |-> out.portfolio,
                executed |->
                    Append(so_far.executed,
                           [ticker |-> order.ticker,
                            action |-> order.action,
                            quantity |-> order.quantity,
                            price |-> price,
                            value |-> RMul(order.quantity, price)]),
                err |-> ""]
          ELSE IF out.err = "ValueError"
          THEN \* caught at line 133, the order is passed over
               [so_far EXCEPT !.portfolio = out.portfolio]
          ELSE [so_far EXCEPT !.portfolio = out.portfolio, !.err = out.err]

\* the loop over the first k orders
RECURSIVE ExecuteOrders(_, _, _, _, _)
ExecuteOrders(p, orders, current_prices, fee, k) ==
    IF k = 0
    THEN [portfolio |-> p, executed |-> <<>>, err |-> ""]
    ELSE CHOOSE after \in
             {ExecuteOrder(orders[k], current_prices, fee, so_far) :
                  so_far \in {ExecuteOrders(p, orders, current_prices, fee,
                                            k - 1)}} : TRUE

\* lines 112-137 on what calculate_trades returned or raised
Executed(calc, current_prices, fee) ==
    IF calc.err # ""
    THEN [portfolio |-> calc.portfolio, calculated |-> FALSE,
          trades |-> <<>>, executed |-> <<>>, err |-> calc.err]
    ELSE CHOOSE out \in
             {[portfolio |-> done.portfolio, calculated |-> TRUE,
               trades |-> calc.trades,
               executed |-> IF done.err = "" THEN done.executed ELSE <<>>,
               err |-> done.err] :
                  done \in {ExecuteOrders(calc.portfolio, calc.trades,
                                          current_prices, fee,
                                          Len(calc.trades))}} : TRUE

\* Rebalancer.execute_rebalance(target_weights, current_prices, commission,
\* min_trade_value): the portfolio after the call, whether calculate_trades
\* returned, the orders it listed, the list execute_rebalance returns and the
\* exception it raised.
ExecuteRebalance(p, target_weights, current_prices, fee, min_trade_value) ==
    CHOOSE out \in
        {Executed(calc, current_prices, fee) :
             calc \in {CalculateTrades(p, target_weights, current_prices,
                                       min_trade_value)}} : TRUE

\* the inputs of a rebalance
Weights == {R(0), R(50), R(100)}

TargetWeights ==
    {<<>>}
    \cup {<<[ticker |-> t, weight |-> w]>> : t \in Tickers, w \in Weights}
    \cup UNION {{<<[ticker |-> t, weight |-> w], [ticker |-> u, weight |-> v]>> :
                     u \in Tickers \ {t}, w \in Weights, v \in Weights} :
                 t \in Tickers}

MinTradeValues == {R(0), R(3)}

\* A portfolio is set up by purchases; then its Rebalancer is called once.
InitRebalance ==
    /\ EngineIdle
    /\ NoRisk
    /\ portfolio = NewPortfolio(R(MaxCash))
    /\ last_call = PlainCall("Portfolio")
    /\ rebalance = <<>>

Purchase ==
    /\ rebalance = <<>>
    /\ Len(portfolio.transaction_history) < MaxPurchases
    /\ \E t \in Tickers, quantity \in Quantities \ {Zero}, price \in PfPrices \ {Zero} :
         LET out == Buy(portfolio, t, quantity, price, Zero)
         IN  /\ portfolio' = out.portfolio
             /\ last_call' = Call("buy", portfolio, t, quantity, price, Zero, out.err)
    /\ UNCHANGED <<engineVars, riskVars, signalVars, rebalance>>

CallExecuteRebalance ==
    /\ rebalance = <<>>
    /\ \E target_weights \in TargetWeights, current_prices \in PriceDicts,
          fee \in Fees, min_trade_value \in MinTradeValues :
         \E out \in {ExecuteRebalance(portfolio, target_weights, current_prices,
                                      fee, min_trade_value)} :
             /\ portfolio' = out.portfolio
             /\ rebalance' = <<[target_weights |-> target_weights,
                                current_prices |-> current_prices,
                                commission |-> fee,
                                min_trade_value |-> min_trade_value,
                                before |-> portfolio,
                                held |-> portfolio.holdings,
                                calculated |-> out.calculated,
                                trades |-> out.trades,
                                executed |-> out.executed,
                                err |-> out.err]>>
             /\ last_call' = [PlainCall("execute_rebalance") EXCEPT !.err = out.err]
    /\ UNCHANGED <<engineVars, riskVars, signalVars>>

\* calculate_trades called on its own
CallCalculateTrades ==
    /\ rebalance = <<>>
    /\ \E target_weights \in TargetWeights, current_prices \in PriceDicts,
          min_trade_value \in MinTradeValues :
         \E calc \in {CalculateTrades(portfolio, target_weights, current_prices,
                                      min_trade_value)} :
             /\ portfolio' = calc.portfolio
             /\ rebalance' = <<[target_weights |-> target_weights,
                                current_prices |-> current_prices,
                                commission |-> Zero,
                                min_trade_value |-> min_trade_value,
                                before |-> portfolio,
                                held |-> portfolio.holdings,
                                calculated |-> calc.err = "",
                                trades |-> calc.trades,
                                executed |-> <<>>,
                                err |-> calc.err]>>
             /\ last_call' = [PlainCall("calculate_trades") EXCEPT !.err = calc.err]
    /\ UNCHANGED <<engineVars, riskVars, signalVars>>

NextRebalance == Purchase \/ CallCalculateTrades \/ CallExecuteRebalance

SpecRebalance == InitRebalance /\ [][NextRebalance]_vars

\* ------------------------------- periodic_rebalance, threshold_rebalance
\* execute_rebalance's default min_trade_value (line 96)
DefaultMinTradeValue == R(100)

\* lines 161-169: some target drifts by more than the threshold
DriftExceeds(p, target_weights, threshold_pct) ==
    \E k \in 1..Len(target_weights) :
        RLt(threshold_pct,
            RAbs(RSub(target_weights[k].weight,
                      CurrentWeight(p, target_weights[k].ticker))))

\* Rebalancer.periodic_rebalance(target_weights, current_prices,
\* threshold_pct): the portfolio after the call and the boolean it returns
PeriodicRebalance(p, target_weights, current_prices, threshold_pct) ==
    CHOOSE out \in
        {[portfolio |-> priced,
          needed |-> DriftExceeds(priced, target_weights, threshold_pct)] :
             priced \in {UpdatePrices(p, current_prices)}} : TRUE

\* what threshold_rebalance does once the check has answered
AfterCheck(check, target_weights, current_prices, fee) ==
    IF check.needed
    THEN ExecuteRebalance(check.portfolio, target_weights, current_prices, fee,
                          DefaultMinTradeValue)
    ELSE [portfolio |-> check.portfolio, calculated |-> FALSE, trades |-> <<>>,
          executed |-> <<>>, err |-> ""]

\* mutant: the rebalance is executed whatever the check answers
ThresholdRebalanceAlways(p, target_weights, current_prices, threshold_pct, fee) ==
    ExecuteRebalance(p, target_weights, current_prices, fee, DefaultMinTradeValue)

\* Rebalancer.threshold_rebalance(target_weights, current_prices,
\* threshold_pct, commission)
ThresholdRebalance(p, target_weights, current_prices, threshold_pct, fee) ==
    CHOOSE out \in
        {AfterCheck(check, target_weights, current_prices, fee) :
             check \in {PeriodicRebalance(p, target_weights, current_prices,
                                          threshold_pct)}} : TRUE

\* the inputs: prices and capital are in lots of a hundred, so that a gap
\* can reach the default min_trade_value
Lot == 100

LotPrices == {R(0), R(Lot), R(2 * Lot)}

LotPriceDicts == UNION {[T -> LotPrices] : T \in SUBSET Tickers}

Thresholds == {R(5), R(50)}

InitThreshold ==
    /\ EngineIdle
    /\ NoRisk
    /\ portfolio = NewPortfolio(R(MaxCash * Lot))
    /\ last_call = PlainCall("Portfolio")
    /\ rebalance = <<>>

PurchaseLot ==
    /\ rebalance = <<>>
    /\ Len(portfolio.transaction_history) < MaxPurchases
    /\ \E t \in Tickers, quantity \in Quantities \ {Zero} :
         \E out \in {Buy(portfolio, t, quantity, R(Lot), Zero)} :
             /\ portfolio' = out.portfolio
             /\ last_call' = Call("buy", portfolio, t, quantity, R(Lot), Zero, out.err)
    /\ UNCHANGED <<engineVars, riskVars, signalVars, rebalance>>

CallPeriodicRebalance ==
    /\ rebalance = <<>>
    /\ \E target_weights \in TargetWeights, current_prices \in LotPriceDicts,
          threshold_pct \in Thresholds :
         \E out \in {PeriodicRebalance(portfolio, target_weights, current_prices,
                                       threshold_pct)} :
             /\ portfolio' = out.portfolio
             /\ rebalance' = <<[target_weights |-> target_weights,
                                current_prices |-> current_prices,
                                threshold_pct |-> threshold_pct,
                                before |-> portfolio,
                                needed |-> out.needed]>>
             /\ last_call' = PlainCall("periodic_rebalance")
    /\ UNCHANGED <<engineVars, riskVars, signalVars>>

CallThresholdRebalance ==
    /\ rebalance = <<>>
    /\ \E target_weights \in TargetWeights, current_prices \in LotPriceDicts,
          threshold_pct \in Thresholds, fee \in Fees :
         \E out \in {ThresholdRebalance(portfolio, target_weights, current_prices,
                                        threshold_pct, fee)} :
             /\ portfolio' = out.portfolio
             /\ rebalance' = <<[target_weights |-> target_weights,
                                current_prices |-> current_prices,
                                threshold_pct |-> threshold_pct,
                                commission |-> fee,
                                before |-> portfolio,
                                executed |-> out.executed,
                                err |-> out.err]>>
             /\ last_call' = [PlainCall("threshold_rebalance") EXCEPT !.err = out.err]
    /\ UNCHANGED <<engineVars, riskVars, signalVars>>

NextThreshold == PurchaseLot \/ CallPeriodicRebalance \/ CallThresholdRebalance

SpecThreshold == InitThreshold /\ [][NextThreshold]_vars

\* ======================================================== VaRCalculator
\* A returns sample is a sequence of whole numbers of one unit of return;
\* confidence_level is k / ConfidenceSteps, named by k.
ReturnLevels == (0 - MaxReturn)..MaxReturn

Samples == UNION {[1..len -> ReturnLevels] : len \in 1..MaxSample}

ConfidenceLevels == 1..ConfidenceSteps

PortfolioValues == {1, MaxCapital}

\* np.sort: the sample in ascending order
RECURSIVE Insert(_, _)
Insert(x, s) ==
    IF s = <<>> THEN <<x>>
    ELSE IF x <= Head(s) THEN <<x>> \o s
    ELSE <<Head(s)>> \o Insert(x, Tail(s))

RECURSIVE Sort(_)
Sort(s) == IF s = <<>> THEN <<>> ELSE Insert(Head(s), Sort(Tail(s)))

\* np.percentile(a, q) with q = 100 * num / den, its default (linear)
\* method: the value at the virtual index (len - 1) * q / 100 of the sorted
\* sample, interpolated between the two neighbours of the index
Percentile(a, num, den) ==
    LET sorted == Sort(a)
        at == (Len(a) - 1) * num
        below == at \div den
        above == IF at % den = 0 THEN below ELSE below + 1
    IN  RAdd(R(sorted[below + 1]),
             RMul(Rat(at % den, den),
                  R(sorted[above + 1] - sorted[below + 1])))

\* VaRCalculator.historical_var
HistoricalVar(returns, confidence_level, value) ==
    RAbs(RMul(Percentile(returns, ConfidenceSteps - confidence_level,
                         ConfidenceSteps),
              R(value)))

\* A caller holds one returns sample and one portfolio value.
InitVar ==
    /\ EngineIdle
    /\ NoPortfolio
    /\ lookback_period = 1
    /\ table = <<>>
    /\ signals = <<>>
    /\ \E returns \in Samples, value \in PortfolioValues :
           risk = [returns |-> returns, portfolio_value |-> value,
                   estimates |-> <<>>]

\* historical_var(returns, confidence_level, portfolio_value) at a
\* confidence level not asked before; estimates maps the level to the result
CallHistoricalVar ==
    /\ \E k \in ConfidenceLevels \ DOMAIN risk.estimates :
           risk' = [risk EXCEPT !.estimates =
                        (k :> HistoricalVar(risk.returns, k,
                                            risk.portfolio_value)) @@ @]
    /\ UNCHANGED <<engineVars, signalVars, portfolioVars>>

NextVar == CallHistoricalVar

SpecVar == InitVar /\ [][NextVar]_vars

\* ============================================================== claims
Last(s) == s[Len(s)]

\* a loop iteration that ran to its end
BarDone == pc = "loop" /\ pc' = "loop" /\ n' = n + 1

\* the step that ends the loop and returns the result
Returns == pc = "loop" /\ pc' = "returned"

AllHold == \A k \in 1..Len(equity_history) : equity_history[k].signal = HOLD

\* ------------------------------------------------------------------ C1
EquityRowCount ==
    /\ pc \in {"loop", "returned"} => Len(equity_history) = n
    /\ pc = "returned" => Len(result[1].equity_curve) = n

EquityRowBeforeSignal ==
    BarDone =>
        LET e == Last(equity_history')
        IN  /\ equity_history' = Append(equity_history, e)
            /\ e.timestamp = n'
            /\ e.cash = cash
            /\ e.equity = IF HasPosition(positions, ticker)
                          THEN cash + positions[ticker].quantity * row'.close[1]
                          ELSE cash

\* C1: a run over a table of N rows leaves an equity history of exactly N
\* rows, and each bar appends one row whose equity is the cash held before the
\* bar plus quantity x close of the position open before the bar (the cash
\* alone when none is open): the row is written before the bar's signal acts.
C1_EquityBeforeSignal == [](EquityRowCount) /\ [][EquityRowBeforeSignal]_vars

\* a run returned whose equity history priced an open position on some bar
C1_Witness ==
    /\ pc = "returned"
    /\ n >= 2
    /\ \E k \in 1..Len(equity_history) :
          equity_history[k].equity # equity_history[k].cash

\* ------------------------------------------------------------------ C2
TradeArithmetic(t) ==
    LET entry_fee == t.entry_price * t.quantity * commission
        exit_fee == t.exit_price * t.quantity * commission
    IN  /\ t.pnl * CommScale =
              (t.exit_price - t.entry_price) * t.quantity * CommScale
              - (entry_fee + exit_fee)
        /\ t.commission * CommScale = entry_fee + exit_fee

\* C2: every Trade in the ledger, closed by a SELL or by the force-close, has
\* pnl = (p' - p) x q - (p x q x c + p' x q x c) and
\* commission = p x q x c + p' x q x c, with c = commission / CommScale.
C2_TradePnl == \A k \in 1..Len(trades) : TradeArithmetic(trades[k])

\* a returned run with commission whose ledger holds a trade closed by a
\* SELL and a trade closed by the force-close
C2_Witness ==
    /\ pc = "returned"
    /\ commission > 0
    /\ Len(trades) = 2
    /\ trades[1].exit_date < n
    /\ trades[1].commission > 0
    /\ trades[2].exit_date = n
    /\ trades[2].exit_price # trades[2].entry_price \/ trades[2].entry_date = n

\* ------------------------------------------------------------------ C3
OnePosition == pc = "loop" => DOMAIN positions \subseteq {ticker}

BuyWhileOpenIgnored ==
    (pc = "loop" /\ n' = n + 1 /\ row'.signal = BUY /\ HasPosition(positions, ticker))
        => UNCHANGED <<cash, positions, trades>>

\* C3: during a run no position is open but the ticker's one, and a BUY bar
\* that finds a position open leaves cash, the position and the ledger as
\* they were.
C3_SinglePosition == [](OnePosition) /\ [][BuyWhileOpenIgnored]_vars

\* the loop has just passed a BUY bar with a position opened on an earlier bar
C3_Witness ==
    /\ pc = "loop"
    /\ row # <<>>
    /\ row.signal = BUY
    /\ HasPosition(positions, ticker)
    /\ positions[ticker].entry_date < row.timestamp

\* ------------------------------------------------------------------ C4
NoneOpenOnReturn ==
    pc = "returned" => positions = NoPositions /\ result[1].trades = trades

\* within a run, a position leaves the strategy exactly when its Trade is
\* appended, and nothing else touches the ledger
ClosedOnce ==
    (pc = "loop" /\ pc' # "raised") =>
        IF HasPosition(positions, ticker) /\ ~HasPosition(positions', ticker)
        THEN /\ trades' = Append(trades, Last(trades'))
             /\ Last(trades').ticker = ticker
             /\ Last(trades').entry_date = positions[ticker].entry_date
             /\ Last(trades').entry_price = positions[ticker].entry_price
             /\ Last(trades').quantity = positions[ticker].quantity
        ELSE trades' = trades

ForceClosedAtLastBar ==
    (Returns /\ HasPosition(positions, ticker)) =>
        /\ row.timestamp = n
        /\ Last(trades').exit_price = row.close[1]
        /\ Last(trades').exit_date = n

\* C4: when run returns no position is open, each position opened in the run
\* became exactly one Trade, and a position the loop left open was closed at
\* the last bar's close with the last bar's timestamp as exit_date.
C4_AllPositionsClosed ==
    [](NoneOpenOnReturn) /\ [][ClosedOnce /\ ForceClosedAtLastBar]_vars

\* a returned run whose last trade was entered on the last bar itself
C4_Witness ==
    /\ pc = "returned"
    /\ n >= 2
    /\ trades # <<>>
    /\ Last(trades).entry_date = n
    /\ Last(trades).exit_date = n
    /\ row.timestamp = n

\* ------------------------------------------------------------------ C5
Affordable(size, price) ==
    /\ size > 0
    /\ size * price * CommScale + size * price * commission <= cash * CommScale

EntryRule ==
    (/\ pc = "loop"
     /\ n' = n + 1
     /\ row'.signal = BUY
     /\ ~HasPosition(positions, ticker)
     /\ row'.close # <<>>
     /\ position_size' # <<>>)
        => LET size == position_size'[1]
               price == row'.close[1]
           IN  /\ pc' = "loop"
               /\ HasPosition(positions', ticker) <=> Affordable(size, price)
               /\ Affordable(size, price) =>
                     /\ positions'[ticker] =
                            Position(ticker, size, price, n', "long")
                     /\ cash' * CommScale =
                            cash * CommScale
                            - (size * price * CommScale + size * price * commission)
               /\ ~Affordable(size, price) => UNCHANGED <<cash, positions>>
               /\ trades' = trades

\* C5: on a BUY bar with no position open, a close price and a size returned
\* by the strategy, the position is opened if and only if size > 0 and
\* size x close + size x close x c <= cash; otherwise nothing is raised and
\* cash, positions and the ledger are unchanged.
C5_EntryIffAffordable == [][EntryRule]_vars

\* a BUY bar was skipped for insufficient funds
C5_Witness ==
    /\ pc = "loop"
    /\ row # <<>>
    /\ row.signal = BUY
    /\ row.close # <<>>
    /\ position_size # <<>>
    /\ position_size[1] > 0
    /\ ~HasPosition(positions, ticker)
    /\ position_size[1] * row.close[1] > cash
    /\ cash > 0

\* ------------------------------------------------------------------ C6
\* outside the loop the only step is a call of run
RunStartsClean ==
    pc # "loop" =>
        /\ cash' = initial_capital
        /\ trades' = <<>>
        /\ equity_history' = <<>>
        /\ positions' = NoPositions

\* C6: whatever an earlier run left behind, a call of run starts from
\* cash = initial_capital, an empty ledger, an empty equity history and no
\* open position.
C6_RunResets == [][RunStartsClean]_vars

\* an earlier run was aborted by an exception with a position open, cash
\* spent and equity rows written; run can be called again from here
C6_Witness ==
    /\ pc = "raised"
    /\ positions # NoPositions
    /\ cash # initial_capital
    /\ equity_history # <<>>
    /\ ENABLED RunStart

\* ------------------------------------------------------------------ C7
ZeroTradeResult(r) ==
    /\ r.num_trades = 0
    /\ r.trades = <<>>
    /\ r.final_value = r.initial_capital
    /\ r.total_return = 0
    /\ r.winning_trades = 0
    /\ r.losing_trades = 0
    /\ r.win_rate = Zero
    /\ r.avg_win = Zero
    /\ r.avg_loss = Zero
    /\ r.largest_win = 0
    /\ r.largest_loss = 0
    /\ r.sharpe_ratio = ZeroRatio
    /\ r.sortino_ratio = ZeroRatio
    /\ r.max_drawdown = 0
    /\ r.max_drawdown_pct = Zero

\* C7: a run whose every bar carried HOLD returns no trades, final_value =
\* initial_capital, total_return = 0 and the all-zero report.
C7_AllHoldZeroReport == (pc = "returned" /\ AllHold) => ZeroTradeResult(result[1])

\* a run over at least two bars, all HOLD, returned
C7_Witness == pc = "returned" /\ n >= 2 /\ AllHold

\* ------------------------------------------------------------------ C8
BuyCondition(df, t) ==
    CASE strategy = "Momentum" -> MomentumBuy(df, t)
      [] strategy = "MeanReversion" -> MeanReversionBuy(df, t)
      [] strategy = "Breakout" -> BreakoutBuy(df, lookback_period, t)

SellCondition(df, t) ==
    CASE strategy = "Momentum" -> MomentumSell(df, t)
      [] strategy = "MeanReversion" -> MeanReversionSell(df, t)
      [] strategy = "Breakout" -> BreakoutSell(df, lookback_period, t)

BothConditions(t) ==
    BuyCondition(table, t) = "T" /\ SellCondition(table, t) = "T"

ColumnMissing == pc # "idle" /\ ~(RequiredColumns(strategy) \subseteq columns)

FailedBeforeAnySignal ==
    /\ pc = "raised"
    /\ result = <<>>
    /\ equity_history = <<>>
    /\ n = 0

\* C9 as claimed: run on a table that lacks a required column raises
\* MissingIndicatorError before any bar is read and returns no result.
C9_MissingIndicatorError ==
    ColumnMissing => FailedBeforeAnySignal /\ error = "MissingIndicatorError"

\* C9 as amended: the exception is ValueError for Momentum and MeanReversion
\* and the table library's ColumnNotFoundError for Breakout.
C9_MissingColumnRaises ==
    ColumnMissing =>
        /\ FailedBeforeAnySignal
        /\ error = IF strategy = "Breakout" THEN "ColumnNotFoundError"
                   ELSE "ValueError"

\* run was called with a table that lacks one required column
C9_Witness ==
    /\ ColumnMissing
    /\ Cardinality(RequiredColumns(strategy) \ columns) = 1
    /\ error = "ValueError"

\* ----------------------------------------------------------------- C10
CountWins(trs) == Cardinality({k \in 1..Len(trs) : trs[k].pnl > 0})

CountLosses(trs) == Cardinality({k \in 1..Len(trs) : trs[k].pnl < 0})

CountFlat(trs) == Cardinality({k \in 1..Len(trs) : trs[k].pnl = 0})

\* C10 as claimed: winning_trades + losing_trades = num_trades.
C10_WinLossPartition ==
    pc = "returned" =>
        result[1].winning_trades + result[1].losing_trades = result[1].num_trades

\* C10 as amended: winning_trades counts the trades with pnl > 0,
\* losing_trades those with pnl < 0, and together with the trades of zero pnl
\* they make up num_trades.
C10_WinLossFlatPartition ==
    pc = "returned" =>
        LET r == result[1]
        IN  /\ r.num_trades = Len(r.trades)
            /\ r.winning_trades = CountWins(r.trades)
            /\ r.losing_trades = CountLosses(r.trades)
            /\ r.winning_trades + r.losing_trades + CountFlat(r.trades)
                   = r.num_trades

\* a returned run with a winning trade and a trade of zero pnl
C10_Witness ==
    /\ pc = "returned"
    /\ CountWins(trades) = 1
    /\ CountFlat(trades) = 1

\* ------------------------------------------------------------------ C11
\* the deepest drop of an equity column below its running maximum, as a
\* magnitude
DeepestDrop(eq) ==
    Abs(MinOf({eq[t] - MaxOf({eq[k] : k \in 1..t}) : t \in 1..Len(eq)}))

\* C11: for an equity curve with at least one trade, max_drawdown and
\* max_drawdown_pct are both reported as non-negative magnitudes:
\* max_drawdown is |min over t of (equity[t] - max(equity[0..t]))| and
\* max_drawdown_pct is that drop over the running maximum at the trough,
\* times 100.
C11_DrawdownMagnitudes ==
    (pc = "returned" /\ Len(trades) > 0) =>
        LET r == result[1]
            eq == EquityColumn(r.equity_curve)
            peak == CumulativeMax(eq, ArgMinDrawdown(eq))
        IN  /\ r.max_drawdown >= 0
            /\ r.max_drawdown = DeepestDrop(eq)
            /\ r.max_drawdown_pct.num >= 0
            /\ peak > 0 => r.max_drawdown_pct = Rat(DeepestDrop(eq) * 100, peak)

\* ------------------------------------------------------------------ C13
\* a Database method raised while the finished run was being saved
SaveFailed == db /\ db_error # ""

\* C13: with a Database attached, when saving the run or its trades fails
\* after the simulation has completed, run() still returns the computed
\* BacktestResult: the failure does not turn the run into an error.
C13_SaveFailureKeepsResult ==
    SaveFailed => (pc = "returned" /\ result # <<>> /\ error = "")

\* ------------------------------------------------------------------ C12
\* the second run() returned, having been given the table and the ticker of
\* the first
RanTwiceOnSameInputs ==
    /\ run_no = 2
    /\ pc = "returned"
    /\ ticker = tape.ticker
    /\ columns = tape.columns

\* a Trade without its trade_id
WithoutTradeId(t) == [f \in DOMAIN t \ {"trade_id"} |-> t[f]]

WithoutTradeIds(trs) == [k \in 1..Len(trs) |-> WithoutTradeId(trs[k])]

\* C12 as stated: two runs over the same price series with the same strategy
\* and parameters yield identical trade ledgers, every field of every Trade
\* in the same order, and identical equity curves.
C12_IdenticalRuns ==
    RanTwiceOnSameInputs =>
        /\ result[1].trades = first[1].trades
        /\ result[1].equity_curve = first[1].equity_curve

\* C12, amended: the two runs yield trade ledgers identical in every field
\* of every Trade except trade_id (drawn anew by uuid4 for every Trade), in
\* the same order, and identical equity curves.
C12_IdenticalRunsButIds ==
    RanTwiceOnSameInputs =>
        /\ WithoutTradeIds(result[1].trades) = WithoutTradeIds(first[1].trades)
        /\ result[1].equity_curve = first[1].equity_curve

\* both runs returned a ledger with a trade and an equity curve that moved
C12_Witness ==
    /\ RanTwiceOnSameInputs
    /\ Len(result[1].trades) > 0
    /\ \E k \in 1..Len(result[1].equity_curve) :
          result[1].equity_curve[k].equity # initial_capital

\* ------------------------------------------------------------------ C14
\* a result that has been returned is as its caller received it
FirstResultFrozen == first # <<>> => first' = first

\* the ledger of a run in progress only grows at its end
LedgerAppendOnly ==
    pc = "loop" =>
        /\ Len(trades') >= Len(trades)
        /\ SubSeq(trades', 1, Len(trades)) = trades

\* C14: a BacktestResult does not change after it is returned: a later run()
\* on the same engine leaves the trade list, the equity curve and every
\* summary field of the earlier result as they were, and within a run no
\* Trade already in the ledger is modified or removed by later bars.
C14_ResultImmutable == [][FirstResultFrozen /\ LedgerAppendOnly]_vars

\* a later run with another ticker has returned a ledger of its own, the
\* earlier result holding a trade
C14_Witness ==
    /\ run_no = 2
    /\ pc = "returned"
    /\ ticker # tape.ticker
    /\ Len(first[1].trades) > 0
    /\ Len(trades) > 0

\* ---------------------------------------------------------------- C15
\* a call of buy or sell whose arguments meet one of the three conditions
\* of refusal
RefusedCall(call) == call.overdrawn \/ call.unheld \/ call.oversold

LeavesPortfolioUnchanged ==
    RefusedCall(last_call') =>
        /\ last_call'.err = "ValueError"
        /\ portfolio'.cash = portfolio.cash
        /\ portfolio'.holdings = portfolio.holdings
        /\ portfolio'.transaction_history = portfolio.transaction_history

\* C15: buy with quantity x price + commission above the cash raises, sell of
\* a ticker without a holding or of more than the held quantity raises, and
\* in each case cash, every holding and the transaction history are as they
\* were before the call.
C15_RejectedLeavesUnchanged == [][LeavesPortfolioUnchanged]_vars

\* a purchase refused for lack of cash by a portfolio that has a holding,
\* has paid for it and still has cash
C15_Witness ==
    /\ last_call.op = "buy"
    /\ last_call.overdrawn
    /\ last_call.err = "ValueError"
    /\ Len(portfolio.holdings) > 0
    /\ RLt(Zero, portfolio.cash)
    /\ RLt(portfolio.cash, portfolio.initial_capital)

\* ---------------------------------------------------------------- C16
\* C16: for a portfolio created with initial_capital >= 0, cash >= 0 after
\* every accepted buy or sell with non-negative quantity, price and
\* commission.
C16_CashNeverNegative ==
    RLe(Zero, portfolio.cash)

\* ---------------------------------------------------------------- C17
\* the record an accepted call has to leave
RecordOf(call) ==
    LET a == call.args[1]
        notional == RMul(a.quantity, a.price)
    IN  IF call.op = "buy"
        THEN Transaction("BUY", a.ticker, a.quantity, a.price, a.commission,
                         RAdd(notional, a.commission))
        ELSE Transaction("SELL", a.ticker, a.quantity, a.price, a.commission,
                         RSub(notional, a.commission))

AcceptedCall(call) == call.op \in {"buy", "sell"} /\ call.err = ""

OneRecordPerAcceptedCall ==
    LET history == portfolio.transaction_history
    IN  IF AcceptedCall(last_call')
        THEN portfolio'.transaction_history = Append(history, RecordOf(last_call'))
        ELSE portfolio'.transaction_history = history

\* C17: the transaction history is append-only with one record per accepted
\* operation: an accepted buy or sell appends one record (type, ticker,
\* quantity, price, commission, value) at the end, a rejected buy or sell
\* and update_prices append none, and no record is changed or removed.
C17_HistoryAppendOnly == [][OneRecordPerAcceptedCall]_vars

\* an accepted sale recorded after an accepted purchase
C17_Witness ==
    /\ last_call.op = "sell"
    /\ last_call.err = ""
    /\ Len(portfolio.transaction_history) = 2
    /\ portfolio.transaction_history[1].type = "BUY"
    /\ portfolio.transaction_history[2] = RecordOf(last_call)

\* ---------------------------------------------------------------- C18
\* an accepted buy of a ticker that had a holding
RepeatBuy ==
    /\ last_call'.op = "buy"
    /\ last_call'.err = ""
    /\ last_call'.args[1].ticker \in HeldTickers(portfolio)

WeightedAverage ==
    RepeatBuy =>
        LET a == last_call'.args[1]
            old == HoldingOf(portfolio, a.ticker)
            new == HoldingOf(portfolio', a.ticker)
        IN  /\ new.quantity = RAdd(old.quantity, a.quantity)
            /\ new.avg_price =
                   RDiv(RAdd(RMul(old.quantity, old.avg_price),
                             RMul(a.quantity, a.price)),
                        RAdd(old.quantity, a.quantity))

\* C18: after an accepted repeat buy of q2 at p2, with any commission, on a
\* holding of q1 at average price a1, the holding has quantity q1 + q2 and
\* avg_price = (q1 x a1 + q2 x p2) / (q1 + q2), on the same basis as the
\* avg_price = price of a first buy.
C18_RepeatBuyAverage == [][WeightedAverage]_vars

\* ---------------------------------------------------------------- C19
DerivedFieldsAgree(holding) ==
    /\ holding.market_value = RMul(holding.quantity, holding.current_price)
    /\ holding.cost_basis = RMul(holding.quantity, holding.avg_price)
    /\ holding.unrealized_pnl = RSub(holding.market_value, holding.cost_basis)

\* C19: after any sequence of accepted buy, sell and update_prices calls
\* every holding has market_value = quantity x current_price, cost_basis =
\* quantity x avg_price and unrealized_pnl = market_value - cost_basis, hence
\* total_value = cash + the sum of quantity x current_price over the
\* holdings.
C19_DerivedFieldsAgree ==
    /\ \A k \in 1..Len(portfolio.holdings) :
           DerivedFieldsAgree(portfolio.holdings[k])
    /\ TotalValue(portfolio) =
           RAdd(portfolio.cash,
                RSum([k \in 1..Len(portfolio.holdings) |->
                         RMul(portfolio.holdings[k].quantity,
                              portfolio.holdings[k].current_price)]))

\* ---------------------------------------------------------------- C20
\* the tickers that were held when the rebalance was called and have no
\* target weight
ExitTickers(r) ==
    {r.held[k].ticker : k \in 1..Len(r.held)} \ TargetTickers(r.target_weights)

HeldQuantity(r, t) ==
    r.held[CHOOSE k \in 1..Len(r.held) : r.held[k].ticker = t].quantity

\* exactly one order names the ticker, a SELL of the whole holding
OneFullSell(r, t) ==
    LET named == {k \in 1..Len(r.trades) : r.trades[k].ticker = t}
    IN  /\ Cardinality(named) = 1
        /\ \A k \in named : /\ r.trades[k].action = "SELL"
                            /\ r.trades[k].quantity = HeldQuantity(r, t)

\* C20: calculate_trades lists, for every held ticker that has no target
\* weight, exactly one SELL of the whole held quantity, whatever
\* min_trade_value is; after execute_rebalance with a price for that ticker
\* the ticker is no longer among the holdings.
C20_ExcludedLiquidated ==
    (rebalance # <<>> /\ rebalance[1].calculated) =>
        \A t \in ExitTickers(rebalance[1]) :
            /\ OneFullSell(rebalance[1], t)
            /\ (/\ last_call.op = "execute_rebalance"
                /\ t \in DOMAIN rebalance[1].current_prices) =>
                   t \notin HeldTickers(portfolio)

\* ---------------------------------------------------------------- C21
\* the orders of the list that name the ticker
OrdersFor(r, t) == {k \in 1..Len(r.trades) : r.trades[k].ticker = t}

\* |target_weight - current_weight| / 100 x total_value on the refreshed
\* portfolio
Gap(p, target) ==
    RMul(RDiv(RAbs(RSub(target.weight, CurrentWeight(p, target.ticker))), R(100)),
         TotalValue(p))

TargetOrderAsClaimed(r, p, target) ==
    LET named == OrdersFor(r, target.ticker)
        due == /\ target.ticker \in DOMAIN r.current_prices
               /\ RLe(r.min_trade_value, Gap(p, target))
    IN  /\ Cardinality(named) <= 1
        /\ named # {} <=> due
        /\ \A k \in named :
               /\ r.trades[k].action =
                      IF RLt(CurrentWeight(p, target.ticker), target.weight)
                      THEN "BUY" ELSE "SELL"
               /\ r.trades[k].quantity =
                      RDiv(Gap(p, target), r.current_prices[target.ticker])

\* C21: for each ticker of target_weights calculate_trades (prices refreshed)
\* lists at most one order, and lists it exactly when a price for the ticker
\* is supplied and |target_weight - current_weight| / 100 x total_value >=
\* min_trade_value; the order is a BUY when the target weight exceeds the
\* current weight and a SELL otherwise, of quantity
\* |target_weight - current_weight| / 100 x total_value / price.
C21_TargetOrders ==
    (rebalance # <<>> /\ last_call.op = "calculate_trades") =>
        \A k \in 1..Len(rebalance[1].target_weights) :
            TargetOrderAsClaimed(rebalance[1], portfolio,
                                 rebalance[1].target_weights[k])

\* ---------------------------------------------------------------- C30
\* an order as the claim has it handled: filled if it has a price and buy or
\* sell accepts it, otherwise passed over with nothing changed
FilledOrSkipped(order, current_prices, fee, so_far) ==
    IF order.ticker \notin DOMAIN current_prices
    THEN so_far
    ELSE
      LET price == current_prices[order.ticker]
          out == IF order.action = "BUY"
                 THEN Buy(so_far.portfolio, order.ticker, order.quantity, price, fee)
                 ELSE Sell(so_far.portfolio, order.ticker, order.quantity, price, fee)
      IN  IF out.err # ""
          THEN so_far
          ELSE [portfolio |-> out.portfolio,
                executed |->
                    Append(so_far.executed,
                           [ticker |-> order.ticker, action |-> order.action,
                            quantity |-> order.quantity, price |-> price,
                            value |-> RMul(order.quantity, price)])]

RECURSIVE AllFilledOrSkipped(_, _, _, _, _)
AllFilledOrSkipped(p, orders, current_prices, fee, k) ==
    IF k = 0
    THEN [portfolio |-> p, executed |-> <<>>]
    ELSE CHOOSE after \in
             {FilledOrSkipped(orders[k], current_prices, fee, so_far) :
                  so_far \in {AllFilledOrSkipped(p, orders, current_prices, fee,
                                                 k - 1)}} : TRUE

\* C30: execute_rebalance never raises because one order cannot be filled:
\* the orders are attempted in the order calculate_trades lists them, an
\* order that buy or sell rejects or that has no price is passed over with
\* the portfolio unchanged by it and is absent from the returned list, the
\* orders after it are still attempted, and the returned list holds exactly
\* the orders that changed the portfolio.
C30_UnfilledOrdersSkipped ==
    (rebalance # <<>> /\ last_call.op = "execute_rebalance"
                      /\ rebalance[1].calculated) =>
        \E expected \in
               {AllFilledOrSkipped(
                    UpdatePrices(rebalance[1].before, rebalance[1].current_prices),
                    rebalance[1].trades, rebalance[1].current_prices,
                    rebalance[1].commission, Len(rebalance[1].trades))} :
            /\ rebalance[1].err = ""
            /\ portfolio = expected.portfolio
            /\ rebalance[1].executed = expected.executed

\* ---------------------------------------------------------------- C22
\* some ticker of target_weights has |target_weight - current_weight| above
\* the threshold
SomeDrift(p, r) ==
    \E k \in 1..Len(r.target_weights) :
        LET target == r.target_weights[k]
        IN  RLt(r.threshold_pct,
                RAbs(RSub(target.weight, CurrentWeight(p, target.ticker))))

\* C22: periodic_rebalance is a pure boolean check: it returns true exactly
\* when some ticker of target_weights has |target_weight - current_weight| >
\* threshold_pct, and it leaves the portfolio unchanged (cash, every field of
\* every holding, the transaction history).
C22_PeriodicCheckPure ==
    (rebalance # <<>> /\ last_call.op = "periodic_rebalance") =>
        /\ rebalance[1].needed <=> SomeDrift(portfolio, rebalance[1])
        /\ portfolio = rebalance[1].before

\* ---------------------------------------------------------------- C23
QuantitiesOf(p) ==
    [k \in 1..Len(p.holdings) |->
        [ticker |-> p.holdings[k].ticker, quantity |-> p.holdings[k].quantity]]

SameAsExecuteRebalance(r) ==
    \E alone \in {ExecuteRebalance(r.before, r.target_weights, r.current_prices,
                                   r.commission, DefaultMinTradeValue)} :
        /\ r.err = alone.err
        /\ r.executed = alone.executed
        /\ portfolio = alone.portfolio

\* C23: threshold_rebalance trades only if the drift check passes: when no
\* ticker of target_weights drifts by more than threshold_pct it returns an
\* empty list and cash, holding quantities and transaction history are
\* unchanged; when the check passes it performs exactly the trades
\* execute_rebalance performs for the same targets, prices and commission.
C23_TradesOnlyOnDrift ==
    (rebalance # <<>> /\ last_call.op = "threshold_rebalance") =>
        IF SomeDrift(UpdatePrices(rebalance[1].before, rebalance[1].current_prices),
                     rebalance[1])
        THEN SameAsExecuteRebalance(rebalance[1])
        ELSE /\ rebalance[1].err = ""
             /\ rebalance[1].executed = <<>>
             /\ portfolio.cash = rebalance[1].before.cash
             /\ QuantitiesOf(portfolio) = QuantitiesOf(rebalance[1].before)
             /\ portfolio.transaction_history =
                    rebalance[1].before.transaction_history

\* the check passed on a portfolio with a holding and a purchase above the
\* default min_trade_value was made
C23_Witness ==
    /\ rebalance # <<>>
    /\ last_call.op = "threshold_rebalance"
    /\ rebalance[1].err = ""
    /\ Len(rebalance[1].before.holdings) > 0
    /\ \E k \in 1..Len(rebalance[1].executed) :
           rebalance[1].executed[k].action = "BUY"
\* ---------------------------------------------------------------- C24
\* C24: for a fixed returns sample and portfolio value, historical_var does
\* not decrease when confidence_level rises: for c1 <= c2 in (0, 1] the
\* estimate at c1 is at most the estimate at c2, whatever the sample.
C24_VarMonotone ==
    risk # <<>> =>
        \A c1 \in DOMAIN risk.estimates, c2 \in DOMAIN risk.estimates :
            c1 <= c2 => RLe(risk.estimates[c1], risk.estimates[c2])
\* ---------------------------------------------------------------- C29
\* C29: with initial_capital >= 0, close prices >= 0 and a commission rate
\* in [0, 1], the engine's cash is never negative, at any step of run, for
\* every signal sequence and every size the strategy returns.
C29_CashNeverNegative == cash >= 0

\* the loop has just refused an entry whose cost with commission exceeds the
\* cash, after an earlier entry and exit had already changed the cash
C29_Witness ==
    /\ pc = "loop"
    /\ commission > 0
    /\ trades # <<>>
    /\ row # <<>>
    /\ row.signal = BUY
    /\ row.close # <<>>
    /\ position_size # <<>>
    /\ position_size[1] > 0
    /\ ~CanOpen(position_size[1], row.close[1], cash, commission)
    /\ ~HasPosition(positions, ticker)
    /\ cash < initial_capital

\* ---------------------------------------------------------------- C27
RECURSIVE PnlTotal(_)
PnlTotal(trs) ==
    IF trs = <<>> THEN 0 ELSE Head(trs).pnl + PnlTotal(Tail(trs))

\* C27: cash is conserved across a backtest: in the result run returns,
\* final_value - initial_capital is the sum of pnl over the ledger,
\* final_value is the engine's cash after the force-close, and total_return
\* is final_value - initial_capital.
C27_CashConserved ==
    pc = "returned" =>
        /\ result[1].final_value - initial_capital = PnlTotal(result[1].trades)
        /\ result[1].trades = trades
        /\ result[1].final_value = cash
        /\ result[1].initial_capital = initial_capital
        /\ result[1].total_return = result[1].final_value - initial_capital
        /\ positions = NoPositions

\* a returned run with a commission, a trade closed by a SELL and a trade
\* closed by the force-close, ending with a gain or a loss
C27_Witness ==
    /\ pc = "returned"
    /\ commission > 0
    /\ Len(trades) = 2
    /\ trades[1].exit_date < n
    /\ trades[2].exit_date = n
    /\ row.signal # SELL
    /\ trades[1].commission > 0
    /\ result[1].final_value # initial_capital
\* ---------------------------------------------------------------- C28
\* the bars of the ledger, in order: entry at or before exit, the exit of a
\* trade strictly before the entry of the next, and the position still open
\* entered strictly after the last exit
LedgerOrdered ==
    /\ \A k \in 1..Len(trades) :
          /\ trades[k].entry_date <= trades[k].exit_date
          /\ k < Len(trades) => trades[k].exit_date < trades[k + 1].entry_date
    /\ (trades # <<>> /\ HasPosition(positions, ticker))
          => Last(trades).exit_date < GetPosition(positions, ticker).entry_date

\* a loop iteration opens a position, or closes one, or does neither
OneActionPerBar ==
    (pc = "loop" /\ n' = n + 1) =>
        LET held == HasPosition(positions, ticker)
            holds == HasPosition(positions', ticker)
        IN  /\ Len(trades') \in {Len(trades), Len(trades) + 1}
            /\ trades' # trades =>
                  /\ held /\ ~holds
                  /\ Last(trades').exit_date = n + 1
                  /\ Last(trades').entry_date < n + 1
            /\ (held /\ holds) => UNCHANGED <<cash, positions, trades>>
            /\ (~held /\ holds) =>
                  /\ trades' = trades
                  /\ GetPosition(positions', ticker).entry_date = n + 1

SellWithoutPositionIgnored ==
    (pc = "loop" /\ n' = n + 1 /\ row'.signal = SELL
        /\ ~HasPosition(positions, ticker))
        => UNCHANGED <<cash, positions, trades>>

\* C28: the ledger is ordered and its trades do not overlap: a bar opens or
\* closes at most one position, every trade's entry bar is at or before its
\* exit bar, the exit bar of a trade is strictly before the entry bar of the
\* next, and a SELL bar that finds no position open leaves cash, positions
\* and the ledger as they were.
C28_LedgerOrdered ==
    [][OneActionPerBar /\ SellWithoutPositionIgnored /\ LedgerOrdered']_vars

\* a returned run with two trades, the first closed by a SELL on the bar
\* before the second was entered, the second entered and force-closed on the
\* last bar
C28_Witness ==
    /\ pc = "returned"
    /\ Len(trades) = 2
    /\ trades[1].entry_date < trades[1].exit_date
    /\ trades[1].exit_date + 1 = trades[2].entry_date
    /\ trades[2].entry_date = trades[2].exit_date
\* ---------------------------------------------------------------- C25
\* C25: generate_signals of every strategy attaches exactly one signal to
\* every bar: the output has the rows of the input, in the same order and
\* with their cells unchanged, and the signal of every row is BUY, SELL or
\* HOLD, never null, warm-up bars with a missing indicator or a missing
\* previous-bar value included.
C25_OneSignalPerBar ==
    signals # <<>> =>
        /\ Len(signals[1]) = Len(table)
        /\ \A t \in 1..Len(signals[1]) :
              /\ DOMAIN signals[1][t] = DOMAIN table[t] \cup {"signal"}
              /\ \A c \in DOMAIN table[t] : signals[1][t][c] = table[t][c]
              /\ signals[1][t].signal \in Signals

\* a momentum table whose first bar has no rsi (warm-up) and whose later
\* bars got a BUY and a SELL
C25_Witness ==
    /\ strategy = "Momentum"
    /\ signals # <<>>
    /\ Len(table) = 3
    /\ table[1].rsi = Null
    /\ signals[1][1].signal = HOLD
    /\ \E t \in 2..3 : signals[1][t].signal = BUY
    /\ \E t \in 2..3 : signals[1][t].signal = SELL

\* ---------------------------------------------------------------- C26
\* the highest high and the lowest low of the w bars before bar t
PriorHigh(df, w, t) == MaxOf({df[k].high[1] : k \in (t - w)..(t - 1)})

PriorLow(df, w, t) == MinOf({df[k].low[1] : k \in (t - w)..(t - 1)})

\* C26: BreakoutStrategy does not look ahead: the levels compared with
\* close[t] are the maximum high and the minimum low of bars
\* t - lookback .. t - 1 (bar t excluded), the signal of bar t is a function
\* of bars 1..t alone, and a bar with fewer than lookback_period bars before
\* it gets HOLD.
C26_NoLookahead ==
    (strategy = "Breakout" /\ signals # <<>>) =>
        \A t \in 1..Len(table) :
            LET w == lookback_period
                signal == signals[1][t].signal
            IN  /\ signal = BreakoutSignal(SubSeq(table, 1, t), w, t)
                /\ t <= w => signal = HOLD
                /\ t > w =>
                      /\ signal = BUY <=>
                            /\ table[t].close[1] > PriorHigh(table, w, t)
                            /\ HighVolume(table, w, t) = "T"
                      /\ signal = SELL <=>
                            /\ signal # BUY
                            /\ table[t].close[1] < PriorLow(table, w, t)

\* lookback 2 and three bars: the first two get HOLD, the third breaks below
\* the lowest low of the two bars before it although its own low is lower
C26_Witness ==
    /\ strategy = "Breakout"
    /\ signals # <<>>
    /\ lookback_period = 2
    /\ Len(table) = 3
    /\ signals[1][1].signal = HOLD
    /\ signals[1][2].signal = HOLD
    /\ signals[1][3].signal = SELL
    /\ table[3].close[1] < PriorLow(table, 2, 3)

====
